---- MODULE Spec2Model ----
(***************************************************************************)
(* A model of pesde's core: the parallel downloader (src/src/download.rs), *)
(* the registry source's resolve and download                              *)
(* (src/src/source/pesde/mod.rs), the linker (src/src/linking/mod.rs) and  *)
(* the publish command (src/src/cli/commands/publish.rs).                  *)
(*                                                                         *)
(* Each subsystem has its own specification (SpecDL, SpecResolve,          *)
(* SpecRegDl, SpecLink, SpecPublish); the variables of the other           *)
(* subsystems stay at their idle values.                                   *)
(***************************************************************************)
EXTENDS Integers, Sequences, FiniteSets, TLC

VARIABLES
    \* ---- download_graph (src/src/download.rs) ----
    dl_main,            \* where Project::download_graph is: start, loop, ok, err
    dl_i,               \* index of the next graph node the loop visits
    graphSize,          \* number of (name, version_id) nodes of the DependencyGraph
    nodeSource,         \* node -> its PackageSources value (pkg_ref.index_url)
    refreshed_sources,  \* the caller's HashSet<PackageSources>
    initRefreshed,      \* refreshed_sources as it was on entry
    refreshCount,       \* source -> number of source.refresh calls of this run
    task,               \* node -> state of its threadpool job
    dlResult,           \* node -> what its source.download returned: none, ok, err
    dlTarget,           \* node -> Target its source.download returned
    downloaded_graph,   \* the shared DownloadedGraph: node -> Target, inserted nodes only
    mutexHolder,        \* node whose job holds the DownloadedGraph mutex, 0 if free
    poisoned,           \* the mutex is poisoned (a holder panicked)
    chan,               \* results sent on the mpsc channel and not yet received
    sent,               \* node -> number of results its job sent
    rxAlive,            \* the Receiver has not been dropped
    caller,             \* the caller draining the channel: waiting, receiving, failed, done
    callerOk,           \* number of Ok(()) results the caller has received
    dl_error,           \* the DownloadGraphError download_graph returned, if any
    \* ---- PesdePackageSource::resolve (src/src/source/pesde/mod.rs) ----
    res_pc,             \* idle, done
    indexState,         \* the package's file in the index: present, absent, unreadable, malformed
    indexFile,          \* IndexFile: the entries of the package's file (when present)
    specifier,          \* PesdeDependencySpecifier: version requirement, optional target
    project_target,     \* the consumer's TargetKind
    res_result,         \* what resolve returned
    \* ---- PesdePackageSource::download (src/src/source/pesde/mod.rs) ----
    reg_pc,             \* idle, http, unpack, done
    reg_ref,            \* pkg_ref of the running download: cache key and Target
    cas,                \* the CAS: hash -> contents stored under it
    cached,             \* cache keys whose <cas>/index/<name>/<version>/<target> file exists
    cacheText,          \* cache key -> text of that file
    httpRequests,       \* number of HTTP requests sent so far
    tarPos,             \* number of archive entries read so far
    fsEntries,          \* the BTreeMap of entries built while unpacking
    cacheOutcome,       \* what reading the cache file gave: none, ok, notfound, ioerr
    reg_result,         \* what download returned
    firstFS,            \* cache key -> PackageFS its first successful download returned
    prior,              \* the running download's key had a successful download before
    httpAtBegin,        \* httpRequests when the running download began
    usedNetwork,        \* the running download sent its HTTP request
    storedSome,         \* the running download stored an archive file in the CAS
    downloads,          \* number of downloads that returned
    \* ---- Project::link_dependencies (src/src/linking/mod.rs) ----
    link_pc,            \* idle, start, types (first pass), direct, edges (second pass), done
    link_n,             \* position of the node being visited in the graph's order
    edgesLeft,          \* dependency names of the visited node still to be linked
    linkGraph,          \* the DownloadedGraph: package name -> node
    rootKind,           \* manifest.target.kind()
    package_types,      \* package -> its recorded list of exported type names
    has_script,         \* manifest.scripts has the roblox sync config generator
    syncCalls,          \* the calls of the sync config generator script, in order
    filesRead,          \* the packages whose library entry file read_to_string was called on
    link_run,           \* which run of link_dependencies this is
    shimsAtStart,       \* the shim files on disk when the run began
    linkedPaths,        \* the destinations hard-linked by this run, in order
    link_io,            \* the kind of the std::io::Error of an Io result
    shims,              \* linking modules on disk
    edgesPassed,        \* edges <<node, dependency>> the second pass went through
    link_result,        \* what link_dependencies returned
    \* ---- get_target (src/src/source/wally/compat_util.rs) ----
    compat_pc,          \* idle, start, done, linked
    compat_in,          \* the manifest's script, its output, wally.toml
    compat_result,      \* what get_target returned
    \* ---- PublishCommand::run_impl (src/src/cli/commands/publish.rs) ----
    pub_pc,             \* idle, start, build, confirm, finish, policy, send, done
    pub_manifest,       \* the manifest of the project being published
    lockfile,           \* what up_to_date_lockfile finds
    dry_run,            \* --dry-run
    yes,                \* --yes
    archiveCreated,     \* the tar builder exists
    archiveFinished,    \* the archive bytes were produced
    posts,              \* POST requests sent to the registry
    tarballWritten,     \* package.tar.gz was written
    pub_result,         \* what run_impl returned
    includesIn,         \* manifest.includes as read from the manifest
    includes,           \* manifest.includes as run_impl changes it
    libPart,            \* first component of the lib path
    binPart,            \* first component of the bin path
    archive,            \* entries appended to the tar builder, in order
    depsIn,             \* the specifiers of the three dependency maps, as read
    deps,               \* the specifiers as run_impl changes them
    indices,            \* manifest.indices: alias -> URL
    wally_indices,      \* manifest.wally_indices: alias -> URL
    member,             \* the manifest of the workspace member the Workspace specifiers name
    rewriteAt,          \* position of the specifier loop in the chain of the three maps
    has_git,            \* a Git specifier was seen
    has_wally,          \* a Wally specifier was seen
    treeBytes,          \* total size in bytes of the included files
    archiveLen,         \* archive.len(): bytes of the finished archive
    config,             \* the config of the default index
    overage,            \* the overage the size error reports
    response,           \* status and text of the response to the POST
    pub_message,        \* the status line run_impl printed last
    run_pc,             \* position of PublishCommand::run
    workspace_dir,      \* project.workspace_dir(): set inside a workspace member
    members,            \* the members of the workspace, in the order they are visited
    run_i,              \* position in members
    current,            \* the project run_impl is running on
    attempted,          \* the projects run_impl was called on, in order
    failed,             \* the projects run_impl returned an error for
    reported,           \* the projects whose error was printed
    run_result          \* what run returned

dlVars == <<dl_main, dl_i, graphSize, nodeSource, refreshed_sources, initRefreshed,
            refreshCount, task, dlResult, dlTarget, downloaded_graph, mutexHolder,
            poisoned, chan, sent, rxAlive, caller, callerOk, dl_error>>

resVars == <<res_pc, indexState, indexFile, specifier, project_target, res_result>>

regVars == <<reg_pc, reg_ref, cas, cached, cacheText, httpRequests, tarPos, fsEntries,
             cacheOutcome, reg_result, firstFS, prior, httpAtBegin, usedNetwork,
             storedSome, downloads>>

linkMore == <<has_script, syncCalls, filesRead, link_run, shimsAtStart, linkedPaths, link_io>>

linkVars == <<link_pc, link_n, edgesLeft, linkGraph, rootKind, package_types, shims,
              edgesPassed, link_result, linkMore>>

pubFiles == <<includesIn, includes, libPart, binPart, archive>>

pubDeps == <<depsIn, deps, indices, wally_indices, member, rewriteAt, has_git, has_wally>>

pubIndex == <<treeBytes, archiveLen, config, overage, response, pub_message>>

pubVars == <<pub_pc, pub_manifest, lockfile, dry_run, yes, archiveCreated, archiveFinished,
             posts, tarballWritten, pub_result, pubFiles, pubDeps, pubIndex>>

runVars == <<run_pc, workspace_dir, members, run_i, current, attempted, failed, reported,
             run_result>>

compatVars == <<compat_pc, compat_in, compat_result>>

vars == <<dlVars, resVars, regVars, linkVars, pubVars, runVars, compatVars>>

\* What each subsystem leaves alone.
notDlVars == <<resVars, regVars, linkVars, pubVars, runVars, compatVars>>
notResVars == <<dlVars, regVars, linkVars, pubVars, runVars, compatVars>>
notRegVars == <<dlVars, resVars, linkVars, pubVars, runVars, compatVars>>
notLinkVars == <<dlVars, resVars, regVars, pubVars, runVars, compatVars>>
notPubVars == <<dlVars, resVars, regVars, linkVars, runVars, compatVars>>
notRunVars == <<dlVars, resVars, regVars, linkVars, compatVars>>
notCompatVars == <<dlVars, resVars, regVars, pubVars, runVars>>

(***************************************************************************)
(* Bounds of the model.                                                    *)
(***************************************************************************)
NumNodes == 3
Threads == 2

Nodes == 1..NumNodes
Sources == {"indexA", "indexB"}
Targets == {"lune", "luau"}

(***************************************************************************)
(* The idle values of each subsystem's variables.                          *)
(***************************************************************************)
ResIdle ==
    /\ res_pc = "idle"
    /\ indexState = "absent"
    /\ indexFile = {}
    /\ specifier = [version |-> [op |-> "any", v |-> 0], target |-> "none"]
    /\ project_target = "luau"
    /\ res_result = [kind |-> "none", refs |-> {}]

EmptyFS == [p \in {} |-> [tag |-> "d", hash |-> <<>>]]

NoRef == [key |-> "none", target |-> "none"]

NoResult == [kind |-> "none", fs |-> EmptyFS, target |-> "none"]

RegIdle ==
    /\ reg_pc = "idle"
    /\ reg_ref = NoRef
    /\ cas = <<>>
    /\ cached = {}
    /\ cacheText = <<>>
    /\ httpRequests = 0
    /\ tarPos = 0
    /\ fsEntries = EmptyFS
    /\ cacheOutcome = "none"
    /\ reg_result = NoResult
    /\ firstFS = <<>>
    /\ prior = FALSE
    /\ httpAtBegin = 0
    /\ usedNetwork = FALSE
    /\ storedSome = FALSE
    /\ downloads = 0

PubIdle ==
    /\ pub_pc = "idle"
    /\ pub_manifest = <<>>
    /\ lockfile = [state |-> "outdated", graph |-> <<>>]
    /\ dry_run = FALSE
    /\ yes = FALSE
    /\ archiveCreated = FALSE
    /\ archiveFinished = FALSE
    /\ posts = 0
    /\ tarballWritten = FALSE
    /\ pub_result = "none"
    /\ includesIn = {}
    /\ includes = {}
    /\ libPart = "src"
    /\ binPart = "src"
    /\ archive = <<>>
    /\ depsIn = <<>>
    /\ deps = <<>>
    /\ indices = <<>>
    /\ wally_indices = <<>>
    /\ member = "none"
    /\ rewriteAt = 0
    /\ has_git = FALSE
    /\ has_wally = FALSE
    /\ treeBytes = 0
    /\ archiveLen = 0
    /\ config = [max_archive_size |-> 0, git_allowed |-> FALSE, wally_allowed |-> FALSE]
    /\ overage = 0
    /\ response = [status |-> 0, text |-> ""]
    /\ pub_message = [kind |-> "none", text |-> ""]

\* A path, and the value that stands for no path.
NoPath == [stem |-> "", ext |-> ""]

NoTarget == [kind |-> "none", lib |-> NoPath, build_files |-> <<>>]

CompatIdle ==
    /\ compat_pc = "idle"
    /\ compat_in = "none"
    /\ compat_result = [ok |-> FALSE, err |-> "none", target |-> NoTarget]

RunIdle ==
    /\ run_pc = "idle"
    /\ workspace_dir = "none"
    /\ members = <<>>
    /\ run_i = 0
    /\ current = "none"
    /\ attempted = <<>>
    /\ failed = {}
    /\ reported = {}
    /\ run_result = "none"

LinkIdle ==
    /\ link_pc = "idle"
    /\ link_n = 0
    /\ edgesLeft = {}
    /\ linkGraph = <<>>
    /\ rootKind = "lune"
    /\ package_types = <<>>
    /\ shims = {}
    /\ edgesPassed = {}
    /\ link_result = "none"
    /\ has_script = FALSE
    /\ syncCalls = <<>>
    /\ filesRead = {}
    /\ link_run = 0
    /\ shimsAtStart = {}
    /\ linkedPaths = <<>>
    /\ link_io = "none"

DlIdle ==
    /\ dl_main = "idle"
    /\ dl_i = 1
    /\ graphSize = 0
    /\ nodeSource = <<>>
    /\ refreshed_sources = {}
    /\ initRefreshed = {}
    /\ refreshCount = <<>>
    /\ task = <<>>
    /\ dlResult = <<>>
    /\ dlTarget = <<>>
    /\ downloaded_graph = <<>>
    /\ mutexHolder = 0
    /\ poisoned = FALSE
    /\ chan = <<>>
    /\ sent = <<>>
    /\ rxAlive = TRUE
    /\ caller = "idle"
    /\ callerOk = 0
    /\ dl_error = "none"

(***************************************************************************)
(* Project::download_graph                                                 *)
(***************************************************************************)

\* A plausible bug: refresh without looking at what HashSet::insert returned.
NeedsRefresh_always(source, set) == TRUE

\* refreshed_sources.insert(source.clone()) is true iff the source was absent.
NeedsRefresh(source, set) == source \notin set

\* A plausible bug: the source is not kept in the set.
SetInsert_forgets(set, source) == set

\* download.rs:42: HashSet::insert leaves the source in the set, whatever
\* refresh returns afterwards.
SetInsert(set, source) == set \cup {source}

\* Submitted jobs, in the order threadpool.execute queued them.
Submitted == {n \in Nodes : task[n] # "none"}

Running == {n \in Nodes : task[n] \in {"downloading", "downloaded", "locked", "inserted"}}

Ended == {n \in Nodes : task[n] \in {"done", "panicked"}}

DlInit ==
    /\ dl_main = "start"
    /\ dl_i = 1
    /\ graphSize \in 1..NumNodes
    /\ nodeSource \in [Nodes -> Sources]
    /\ \A n \in Nodes : n > graphSize => nodeSource[n] = "indexA"
    /\ refreshed_sources \in SUBSET Sources
    /\ initRefreshed = refreshed_sources
    /\ refreshCount = [s \in Sources |-> 0]
    /\ task = [n \in Nodes |-> "none"]
    /\ dlResult = [n \in Nodes |-> "none"]
    /\ dlTarget = [n \in Nodes |-> "lune"]
    /\ downloaded_graph = [n \in {} |-> "lune"]
    /\ mutexHolder = 0
    /\ poisoned = FALSE
    /\ chan = <<>>
    /\ sent = [n \in Nodes |-> 0]
    /\ rxAlive = TRUE
    /\ caller = "waiting"
    /\ callerOk = 0
    /\ dl_error = "none"

\* download.rs:28-32: deser_manifest()?; then the pool and the channel are made.
DGStart ==
    /\ dl_main = "start"
    /\ \E manifestOk \in BOOLEAN :
         IF manifestOk
         THEN /\ dl_main' = "loop"
              /\ UNCHANGED <<rxAlive, caller, dl_error>>
         ELSE /\ dl_main' = "err"
              /\ dl_error' = "ManifestDeserializationFailed"
              /\ rxAlive' = FALSE
              /\ caller' = "failed"
    /\ UNCHANGED notDlVars
    /\ UNCHANGED <<dl_i, graphSize, nodeSource, refreshed_sources, initRefreshed,
                   refreshCount, task, dlResult, dlTarget, downloaded_graph,
                   mutexHolder, poisoned, chan, sent, callerOk>>

\* download.rs:34-88: one iteration of the loop over the graph's nodes. An
\* error of refresh or create_dir_all returns from download_graph, which drops
\* rx (and the caller gets no receiver).
DGIterate ==
    /\ dl_main = "loop"
    /\ dl_i <= graphSize
    /\ LET source == nodeSource[dl_i]
           fresh == NeedsRefresh(source, refreshed_sources)
       IN  /\ refreshed_sources' = SetInsert(refreshed_sources, source)
           /\ refreshCount' = IF fresh
                              THEN [refreshCount EXCEPT ![source] = @ + 1]
                              ELSE refreshCount
           /\ \E refreshOk \in BOOLEAN, mkdirOk \in BOOLEAN :
                /\ (~fresh) => refreshOk
                /\ (~refreshOk) => mkdirOk
                /\ IF refreshOk /\ mkdirOk
                   THEN /\ task' = [task EXCEPT ![dl_i] = "queued"]
                        /\ dl_i' = dl_i + 1
                        /\ UNCHANGED <<dl_main, rxAlive, caller, dl_error>>
                   ELSE /\ dl_main' = "err"
                        /\ dl_error' = IF refreshOk THEN "Io" ELSE "RefreshFailed"
                        /\ rxAlive' = FALSE
                        /\ caller' = "failed"
                        /\ UNCHANGED <<task, dl_i>>
    /\ UNCHANGED notDlVars
    /\ UNCHANGED <<graphSize, nodeSource, initRefreshed, dlResult, dlTarget, downloaded_graph,
                   mutexHolder, poisoned, chan, sent, callerOk>>

\* download.rs:91: Ok((rx, downloaded_graph)).
DGReturn ==
    /\ dl_main = "loop"
    /\ dl_i > graphSize
    /\ dl_main' = "ok"
    /\ caller' = "receiving"
    /\ UNCHANGED notDlVars
    /\ UNCHANGED dl_error
    /\ UNCHANGED <<dl_i, graphSize, nodeSource, refreshed_sources, initRefreshed,
                   refreshCount, task, dlResult, dlTarget, downloaded_graph,
                   mutexHolder, poisoned, chan, sent, rxAlive, callerOk>>

(***************************************************************************)
(* The job download_graph hands to the thread pool (download.rs:67-87).    *)
(***************************************************************************)

\* The pool runs at most `threads` jobs at a time and takes them in the order
\* they were queued; a worker thread that panicked is replaced.
TaskStart(n) ==
    /\ task[n] = "queued"
    /\ Cardinality(Running) < Threads
    /\ \A m \in Nodes : m < n => task[m] # "queued"
    /\ task' = [task EXCEPT ![n] = "downloading"]
    /\ UNCHANGED notDlVars
    /\ UNCHANGED dl_error
    /\ UNCHANGED <<dl_main, dl_i, graphSize, nodeSource, refreshed_sources,
                   initRefreshed, refreshCount, dlResult, dlTarget, downloaded_graph,
                   mutexHolder, poisoned, chan, sent, rxAlive, caller, callerOk>>

\* download.rs:70-73: source.download(..) returned Ok(target).
TaskDownloadOk(n) ==
    /\ task[n] = "downloading"
    /\ \E t \in Targets : dlTarget' = [dlTarget EXCEPT ![n] = t]
    /\ dlResult' = [dlResult EXCEPT ![n] = "ok"]
    /\ task' = [task EXCEPT ![n] = "downloaded"]
    /\ UNCHANGED notDlVars
    /\ UNCHANGED dl_error
    /\ UNCHANGED <<dl_main, dl_i, graphSize, nodeSource, refreshed_sources,
                   initRefreshed, refreshCount, downloaded_graph, mutexHolder,
                   poisoned, chan, sent, rxAlive, caller, callerOk>>

\* download.rs:74-77: source.download(..) returned Err(e); the job sends Err and
\* returns. Sender::send fails once the Receiver is dropped, and unwrap panics.
TaskDownloadErr(n) ==
    /\ task[n] = "downloading"
    /\ dlResult' = [dlResult EXCEPT ![n] = "err"]
    /\ IF rxAlive
       THEN /\ chan' = Append(chan, "err")
            /\ sent' = [sent EXCEPT ![n] = @ + 1]
            /\ task' = [task EXCEPT ![n] = "done"]
       ELSE /\ task' = [task EXCEPT ![n] = "panicked"]
            /\ UNCHANGED <<chan, sent>>
    /\ UNCHANGED notDlVars
    /\ UNCHANGED dl_error
    /\ UNCHANGED <<dl_main, dl_i, graphSize, nodeSource, refreshed_sources,
                   initRefreshed, refreshCount, dlTarget, downloaded_graph,
                   mutexHolder, poisoned, rxAlive, caller, callerOk>>

\* download.rs:80: downloaded_graph.lock().unwrap(). lock() blocks while another
\* job holds the mutex; on a poisoned mutex it returns Err and unwrap panics.
TaskLock(n) ==
    /\ task[n] = "downloaded"
    /\ mutexHolder = 0
    /\ IF poisoned
       THEN /\ task' = [task EXCEPT ![n] = "panicked"]
            /\ UNCHANGED mutexHolder
       ELSE /\ task' = [task EXCEPT ![n] = "locked"]
            /\ mutexHolder' = n
    /\ UNCHANGED notDlVars
    /\ UNCHANGED dl_error
    /\ UNCHANGED <<dl_main, dl_i, graphSize, nodeSource, refreshed_sources,
                   initRefreshed, refreshCount, dlResult, dlTarget, downloaded_graph,
                   poisoned, chan, sent, rxAlive, caller, callerOk>>

\* A plausible bug: the node is stored with a default Target, not the one the
\* download returned.
InsertNode_default(graph, n, target) ==
    [m \in (DOMAIN graph) \cup {n} |-> IF m = n THEN "lune" ELSE graph[m]]

\* A plausible bug: nothing is inserted.
InsertNode_nothing(graph, n, target) == graph

\* download.rs:81-84: entry(name).or_default().insert(version_id, {node, target}).
InsertNode(graph, n, target) ==
    [m \in (DOMAIN graph) \cup {n} |-> IF m = n THEN target ELSE graph[m]]

TaskInsert(n) ==
    /\ task[n] = "locked"
    /\ downloaded_graph' = InsertNode(downloaded_graph, n, dlTarget[n])
    /\ task' = [task EXCEPT ![n] = "inserted"]
    /\ UNCHANGED notDlVars
    /\ UNCHANGED dl_error
    /\ UNCHANGED <<dl_main, dl_i, graphSize, nodeSource, refreshed_sources,
                   initRefreshed, refreshCount, dlResult, dlTarget, mutexHolder,
                   poisoned, chan, sent, rxAlive, caller, callerOk>>

\* download.rs:86-87: tx.send(Ok(())).unwrap() with the MutexGuard still alive;
\* the guard is dropped when the closure ends. A panic of unwrap drops the
\* guard while the thread is panicking, which poisons the mutex.
TaskSendOk(n) ==
    /\ task[n] = "inserted"
    /\ mutexHolder' = 0
    /\ IF rxAlive
       THEN /\ chan' = Append(chan, "ok")
            /\ sent' = [sent EXCEPT ![n] = @ + 1]
            /\ task' = [task EXCEPT ![n] = "done"]
            /\ UNCHANGED poisoned
       ELSE /\ task' = [task EXCEPT ![n] = "panicked"]
            /\ poisoned' = TRUE
            /\ UNCHANGED <<chan, sent>>
    /\ UNCHANGED notDlVars
    /\ UNCHANGED dl_error
    /\ UNCHANGED <<dl_main, dl_i, graphSize, nodeSource, refreshed_sources,
                   initRefreshed, refreshCount, dlResult, dlTarget, downloaded_graph,
                   rxAlive, caller, callerOk>>

(***************************************************************************)
(* The caller of download_graph, which drains the channel: on the first    *)
(* Err it returns that error, and the Receiver it owns goes out of scope.  *)
(***************************************************************************)
CallerRecvOk ==
    /\ caller = "receiving"
    /\ chan # <<>>
    /\ Head(chan) = "ok"
    /\ chan' = Tail(chan)
    /\ callerOk' = callerOk + 1
    /\ UNCHANGED notDlVars
    /\ UNCHANGED dl_error
    /\ UNCHANGED <<dl_main, dl_i, graphSize, nodeSource, refreshed_sources,
                   initRefreshed, refreshCount, task, dlResult, dlTarget,
                   downloaded_graph, mutexHolder, poisoned, sent, rxAlive, caller>>

CallerRecvErr ==
    /\ caller = "receiving"
    /\ chan # <<>>
    /\ Head(chan) = "err"
    /\ chan' = <<>>
    /\ rxAlive' = FALSE
    /\ caller' = "failed"
    /\ UNCHANGED notDlVars
    /\ UNCHANGED dl_error
    /\ UNCHANGED <<dl_main, dl_i, graphSize, nodeSource, refreshed_sources,
                   initRefreshed, refreshCount, task, dlResult, dlTarget,
                   downloaded_graph, mutexHolder, poisoned, sent, callerOk>>

\* recv() fails once the channel is empty and every Sender is dropped: the
\* caller takes the DownloadedGraph.
CallerFinish ==
    /\ caller = "receiving"
    /\ chan = <<>>
    /\ Submitted = Ended
    /\ caller' = "done"
    /\ UNCHANGED notDlVars
    /\ UNCHANGED dl_error
    /\ UNCHANGED <<dl_main, dl_i, graphSize, nodeSource, refreshed_sources,
                   initRefreshed, refreshCount, task, dlResult, dlTarget,
                   downloaded_graph, mutexHolder, poisoned, chan, sent, rxAlive,
                   callerOk>>

DlNext ==
    \/ DGStart
    \/ DGIterate
    \/ DGReturn
    \/ \E n \in Nodes : TaskStart(n)
    \/ \E n \in Nodes : TaskDownloadOk(n)
    \/ \E n \in Nodes : TaskDownloadErr(n)
    \/ \E n \in Nodes : TaskLock(n)
    \/ \E n \in Nodes : TaskInsert(n)
    \/ \E n \in Nodes : TaskSendOk(n)
    \/ CallerRecvOk
    \/ CallerRecvErr
    \/ CallerFinish

InitDL == RunIdle /\ CompatIdle /\ ResIdle /\ RegIdle /\ LinkIdle /\ PubIdle /\ DlInit

SpecDL == InitDL /\ [][DlNext]_vars

(***************************************************************************)
(* Claims about download_graph.                                            *)
(***************************************************************************)

\* The nodes whose loop iteration submitted a job.
Processed == {n \in Nodes : task[n] # "none"}

\* Every submitted job has ended, and download_graph submits no more.
AllTasksFinished == dl_main \in {"ok", "err"} /\ Submitted = Ended

\* C1: during one download_graph run every source is refreshed at most once,
\* never when it was in refreshed_sources on entry, exactly once when it was
\* not and a processed node uses it; the source of every processed node is in
\* refreshed_sources.
C1_RefreshOncePerSource ==
    /\ \A s \in Sources :
         /\ refreshCount[s] <= 1
         /\ s \in initRefreshed => refreshCount[s] = 0
    /\ \A n \in Processed :
         /\ nodeSource[n] \in refreshed_sources
         /\ nodeSource[n] \notin initRefreshed => refreshCount[nodeSource[n]] = 1

\* Two processed nodes share a source that was refreshed once, and a third
\* uses a source that was already refreshed on entry and was not refreshed.
C1_Witness ==
    /\ dl_main = "ok"
    /\ \E n, m, k \in Processed :
         /\ n # m
         /\ nodeSource[n] = nodeSource[m]
         /\ refreshCount[nodeSource[n]] = 1
         /\ nodeSource[k] \in initRefreshed
         /\ refreshCount[nodeSource[k]] = 0

\* C2: once all tasks have finished, the DownloadedGraph holds exactly the
\* nodes whose download succeeded, each with the Target its download
\* returned; when every download succeeded these are all nodes of the graph.
C2_GraphHoldsSucceeded ==
    AllTasksFinished =>
        /\ DOMAIN downloaded_graph = {n \in Nodes : dlResult[n] = "ok"}
        /\ \A n \in DOMAIN downloaded_graph : downloaded_graph[n] = dlTarget[n]
        /\ (dl_main = "ok" /\ \A n \in 1..graphSize : dlResult[n] = "ok")
              => DOMAIN downloaded_graph = 1..graphSize

\* The jobs between lock() and the end of the closure.
Holders == {n \in Nodes : task[n] \in {"locked", "inserted"}}

\* C22: a job does not hold the DownloadedGraph mutex while its download
\* runs; the holder is a job whose download succeeded; at most one job is
\* between lock() and the end of its closure; the graph changes only by the
\* holder inserting its own node, once; and what keeps a job from the lock is
\* never a job that is still downloading.
C22_LockOnlyAroundInsert ==
    /\ [](/\ \A n \in Nodes : task[n] = "downloading" => mutexHolder # n
          /\ Cardinality(Holders) <= 1
          /\ \A n \in Holders : mutexHolder = n /\ dlResult[n] = "ok"
          /\ mutexHolder # 0 => mutexHolder \in Holders)
    /\ [][/\ downloaded_graph' # downloaded_graph =>
                /\ mutexHolder \in Nodes
                /\ mutexHolder' = mutexHolder
                /\ task[mutexHolder] = "locked"
                /\ mutexHolder \notin DOMAIN downloaded_graph
                /\ DOMAIN downloaded_graph' = DOMAIN downloaded_graph \cup {mutexHolder}
          /\ \A n \in Nodes :
                (task[n] = "locked" /\ task'[n] # "locked") =>
                    /\ task'[n] = "inserted"
                    /\ n \in DOMAIN downloaded_graph'
                    /\ n \notin DOMAIN downloaded_graph
          /\ \A n \in Nodes :
                (task[n] = "inserted" /\ task'[n] # "inserted") =>
                    /\ mutexHolder' = 0
                    /\ downloaded_graph' = downloaded_graph]_vars

\* One job holds the mutex after its insertion while another job's download
\* is still running and a third node is already in the graph.
C22_Witness ==
    \E n, m, k \in Nodes :
        /\ task[n] = "downloading"
        /\ task[m] = "inserted"
        /\ mutexHolder = m
        /\ task[k] = "done"
        /\ {m, k} \subseteq DOMAIN downloaded_graph

\* C26: every job that has ended sent exactly one result, and none sent more;
\* a job that sent Ok had inserted its node; the caller has received no more
\* Ok results than the graph has entries, and with one Ok per graph node the
\* DownloadedGraph is complete.
C26_OneResultPerTask ==
    /\ \A n \in Nodes : sent[n] <= 1
    /\ \A n \in Ended : sent[n] = 1
    /\ \A n \in Nodes : (sent[n] = 1 /\ dlResult[n] = "ok") => n \in DOMAIN downloaded_graph
    /\ callerOk <= Cardinality(DOMAIN downloaded_graph)
    /\ (dl_main = "ok" /\ callerOk = graphSize) => DOMAIN downloaded_graph = 1..graphSize

\* C27: when download_graph has returned RefreshFailed at a node, no job was
\* submitted for that node or a later one, the jobs of the earlier nodes
\* stay submitted, and the failing source, refreshed once, is in
\* refreshed_sources; a run that starts with a source in the set never
\* refreshes it.
C27_RefreshFailureKeepsSource ==
    /\ dl_error = "RefreshFailed" =>
          /\ dl_main = "err"
          /\ dl_i \in 1..graphSize
          /\ \A n \in Nodes : n >= dl_i => task[n] = "none"
          /\ \A n \in Nodes : n < dl_i => task[n] # "none"
          /\ nodeSource[dl_i] \in refreshed_sources
          /\ nodeSource[dl_i] \notin initRefreshed
          /\ refreshCount[nodeSource[dl_i]] = 1
    /\ \A s \in Sources : s \in initRefreshed => refreshCount[s] = 0

\* The refresh for the third node failed; the job of one earlier node is
\* still downloading and the other has inserted its node.
C27_Witness ==
    /\ dl_error = "RefreshFailed"
    /\ dl_i = 3
    /\ \E n, m \in 1..2 :
         /\ task[n] = "downloading"
         /\ m \in DOMAIN downloaded_graph

\* C3: after a task reported an error and the caller stopped accepting
\* results, every queued task still runs to completion: none is aborted.
C3_QueuedTasksComplete ==
    (dl_main = "ok" /\ caller = "failed") => \A n \in Nodes : task[n] # "panicked"

(***************************************************************************)
(* PesdePackageSource::resolve (src/src/source/pesde/mod.rs:332-381).      *)
(***************************************************************************)
MaxVersion == 2
MaxEntries == 2

Versions == 1..MaxVersion
Kinds == {"roblox", "roblox_server", "lune", "luau"}
RobloxKinds == {"roblox", "roblox_server"}
DepTables == {"nodeps", "deps"}
SpecName == "scope/name"
RepoUrl == "indexA"

\* A version requirement: any version (*), exactly v (=v), v or greater (>=v).
VersionReqs ==
    {[op |-> "any", v |-> 0]} \cup {[op |-> o, v |-> v] : o \in {"eq", "ge"}, v \in Versions}

\* semver::VersionReq::matches.
VersionMatches(req, version) ==
    CASE req.op = "any" -> TRUE
      [] req.op = "eq" -> version = req.v
      [] req.op = "ge" -> version >= req.v

\* TargetKind::is_compatible_with: a kind may depend on its own kind, the
\* script runtime may depend on generic Luau, the Roblox server kind on the
\* Roblox kind; a Roblox kind never depends on a non-Roblox kind.
IsCompatibleWith(consumer, dependency) ==
    \/ consumer = dependency
    \/ consumer = "lune" /\ dependency = "luau"
    \/ consumer = "roblox_server" /\ dependency = "roblox"

\* An entry of the index file under its key VersionId(version, target kind).
Entries ==
    [version : Versions, kind : Kinds, dependencies : DepTables]

EntryTarget(e) == [kind |-> e.kind]

KeyUnique(S) == \A e1, e2 \in S : (e1.version = e2.version /\ e1.kind = e2.kind) => e1 = e2

RECURSIVE EntrySetsUpTo(_)
EntrySetsUpTo(k) ==
    IF k = 0 THEN {{}}
    ELSE LET P == EntrySetsUpTo(k - 1)
         IN  P \cup {S \cup {e} : S \in P, e \in Entries}

IndexFiles == {S \in EntrySetsUpTo(MaxEntries) : KeyUnique(S)}

\* A plausible bug: the specifier's target is ignored.
EntryMatches_noTarget(spec, pt, e) ==
    /\ VersionMatches(spec.version, e.version)
    /\ IsCompatibleWith(pt, e.kind)

\* mod.rs:359-364: the filter of resolve.
EntryMatches(spec, pt, e) ==
    /\ VersionMatches(spec.version, e.version)
    /\ IF spec.target = "none"
       THEN IsCompatibleWith(pt, e.kind)
       ELSE spec.target = e.kind

\* mod.rs:365-378: the PesdePackageRef made of an entry.
MakeRef(e) ==
    [id |-> <<e.version, e.kind>>,
     ref |-> [name |-> SpecName, version |-> e.version, index_url |-> RepoUrl,
              dependencies |-> e.dependencies, target |-> EntryTarget(e)]]

\* A plausible bug: no entry left by the filter is reported as NotFound.
ResolveResult_emptyIsNotFound(state, file, spec, pt) ==
    CASE state = "absent" -> [kind |-> "NotFound", refs |-> {}]
      [] state = "unreadable" -> [kind |-> "Read", refs |-> {}]
      [] state = "malformed" -> [kind |-> "Parse", refs |-> {}]
      [] state = "present" ->
            IF {e \in file : EntryMatches(spec, pt, e)} = {}
            THEN [kind |-> "NotFound", refs |-> {}]
            ELSE [kind |-> "Ok",
                  refs |-> {MakeRef(e) : e \in {x \in file : EntryMatches(spec, pt, x)}}]

\* mod.rs:338-381: read_file gives Ok(None) for a missing file (NotFound), an
\* error (Read), or the text, which toml parses (Parse on failure).
ResolveResult(state, file, spec, pt) ==
    CASE state = "absent" -> [kind |-> "NotFound", refs |-> {}]
      [] state = "unreadable" -> [kind |-> "Read", refs |-> {}]
      [] state = "malformed" -> [kind |-> "Parse", refs |-> {}]
      [] state = "present" ->
            [kind |-> "Ok",
             refs |-> {MakeRef(e) : e \in {x \in file : EntryMatches(spec, pt, x)}}]

ResInit ==
    /\ res_pc = "idle"
    /\ indexState \in {"present", "absent", "unreadable", "malformed"}
    /\ indexFile \in IndexFiles
    /\ indexState # "present" => indexFile = {}
    /\ specifier \in [version : VersionReqs, target : Kinds \cup {"none"}]
    /\ project_target \in Kinds
    /\ res_result = [kind |-> "none", refs |-> {}]

Resolve ==
    /\ res_pc = "idle"
    /\ res_result' = ResolveResult(indexState, indexFile, specifier, project_target)
    /\ res_pc' = "done"
    /\ UNCHANGED <<indexState, indexFile, specifier, project_target>>
    /\ UNCHANGED notResVars

ResNext ==
    \/ Resolve

InitResolve == RunIdle /\ CompatIdle /\ DlIdle /\ RegIdle /\ LinkIdle /\ PubIdle /\ ResInit

SpecResolve == InitResolve /\ [][ResNext]_vars

\* The entries the claim says resolve returns.
WantedEntries ==
    {e \in indexFile :
        /\ VersionMatches(specifier.version, e.version)
        /\ \/ specifier.target # "none" /\ e.kind = specifier.target
           \/ specifier.target = "none" /\ IsCompatibleWith(project_target, e.kind)}

\* C4: resolve returns exactly the entries whose version satisfies the
\* requirement and whose target kind equals the specifier's target, or, when
\* the specifier names none, is compatible with the consumer's kind; each
\* ref carries this source's index URL and the entry's dependencies and
\* target.
C4_ResolveReturnsExactlyMatching ==
    (res_pc = "done" /\ indexState = "present") =>
        /\ res_result.kind = "Ok"
        /\ {r.id : r \in res_result.refs} = {<<e.version, e.kind>> : e \in WantedEntries}
        /\ \A r \in res_result.refs :
             /\ r.ref.index_url = RepoUrl
             /\ r.ref.name = SpecName
             /\ r.ref.version = r.id[1]
             /\ \E e \in indexFile :
                  /\ <<e.version, e.kind>> = r.id
                  /\ r.ref.dependencies = e.dependencies
                  /\ r.ref.target = EntryTarget(e)

\* The specifier names a target kind that differs from a compatible entry's
\* kind: one entry is returned and another, of a compatible kind, is not.
C4_Witness ==
    /\ res_pc = "done"
    /\ specifier.target # "none"
    /\ res_result.refs # {}
    /\ \E e \in indexFile :
         /\ VersionMatches(specifier.version, e.version)
         /\ IsCompatibleWith(project_target, e.kind)
         /\ e.kind # specifier.target
         /\ <<e.version, e.kind>> \notin {r.id : r \in res_result.refs}

\* The case of C5: a Roblox-kind consumer, no target in the specifier, and an
\* index file that only holds ScriptRuntime versions.
RobloxAgainstLuneOnly ==
    /\ res_pc = "done"
    /\ indexState = "present"
    /\ project_target \in RobloxKinds
    /\ specifier.target = "none"
    /\ indexFile # {}
    /\ \A e \in indexFile : e.kind = "lune"

\* C5 as stated: that resolve ends in NotFound, not in a successful result.
C5_TargetMismatchIsNotFound ==
    RobloxAgainstLuneOnly => res_result.kind = "NotFound"

\* C5 amended: that resolve succeeds with no version at all; NotFound is what
\* resolve returns exactly when the package has no file in the index.
C5_TargetMismatchIsEmptyOk ==
    /\ RobloxAgainstLuneOnly => (res_result.kind = "Ok" /\ res_result.refs = {})
    /\ res_pc = "done" => (res_result.kind = "NotFound" <=> indexState = "absent")

C5_Witness ==
    /\ RobloxAgainstLuneOnly
    /\ \E e \in indexFile : VersionMatches(specifier.version, e.version)

(***************************************************************************)
(* PesdePackageSource::download (src/src/source/pesde/mod.rs:383-459).     *)
(***************************************************************************)
MaxArchive == 2
MaxDownloads == 3

RefKeys == {"scope+name/1.0.0/lune", "scope+name/2.0.0/lune"}
RefTargets == {"lune lib", "lune bin"}
Paths == {1, 2}
Contents == {"x", "y"}

\* The digest of store_in_cas, one hash per contents.
Hash(contents) == <<"hash", contents>>

\* store_in_cas(cas_dir, contents): the contents are written under their hash.
store_in_cas(c, contents) ==
    [h \in (DOMAIN c) \cup {Hash(contents)} |->
        IF h = Hash(contents) THEN contents ELSE c[h]]

\* An entry of the tar stream: a directory, or a file with its contents.
TarEntries ==
    [path : Paths, dir : {TRUE}, contents : {"x"}]
        \cup [path : Paths, dir : {FALSE}, contents : Contents]

Directory == [tag |-> "d", hash |-> <<>>]
File(hash) == [tag |-> "f", hash |-> hash]

\* BTreeMap::insert: a later entry of the same path replaces the earlier one.
MapInsert(fs, path, fse) ==
    [p \in (DOMAIN fs) \cup {path} |-> IF p = path THEN fse ELSE fs[p]]

\* A plausible bug: the hash is recorded but the contents are not stored.
CasAfterEntry_notStored(c, e) == c

\* mod.rs:436-446: a directory leaves the CAS alone, a file is stored in it.
CasAfterEntry(c, e) == IF e.dir THEN c ELSE store_in_cas(c, e.contents)

\* mod.rs:436-446: what the entry adds to the PackageFS.
FsAfterEntry(fs, e) ==
    IF e.dir
    THEN MapInsert(fs, e.path, Directory)
    ELSE MapInsert(fs, e.path, File(Hash(e.contents)))

\* toml::to_string(&fs): the entries as lines, in the map's key order.
RECURSIVE SerFrom(_, _)
SerFrom(fs, ps) ==
    IF ps = {} THEN <<>>
    ELSE LET p == CHOOSE x \in ps : \A y \in ps : x <= y
         IN  <<[path |-> p, tag |-> fs[p].tag, hash |-> fs[p].hash]>>
                 \o SerFrom(fs, ps \ {p})

Ser(fs) == SerFrom(fs, DOMAIN fs)

\* toml::from_str::<PackageFS>(&s): the map of the lines.
RECURSIVE De(_)
De(text) ==
    IF text = <<>> THEN EmptyFS
    ELSE LET l == text[Len(text)]
         IN  MapInsert(De(SubSeq(text, 1, Len(text) - 1)), l.path,
                       IF l.tag = "d" THEN Directory ELSE File(l.hash))

\* A plausible bug: the cache file is never found, every download fetches.
CacheReadOutcomes_neverCached(key, files) == {"notfound", "ioerr"}

\* mod.rs:397-409: std::fs::read_to_string(&index_file) gives the text of an
\* existing file, NotFound for a missing one, or another I/O error.
CacheReadOutcomes(key, files) ==
    IF key \in files THEN {"ok", "ioerr"} ELSE {"notfound", "ioerr"}

RegInit ==
    /\ reg_pc = "idle"
    /\ reg_ref = NoRef
    /\ cas = <<>>
    /\ cached = {}
    /\ cacheText = [k \in RefKeys |-> <<>>]
    /\ httpRequests = 0
    /\ tarPos = 0
    /\ fsEntries = EmptyFS
    /\ cacheOutcome = "none"
    /\ reg_result = NoResult
    /\ firstFS = <<>>
    /\ prior = FALSE
    /\ httpAtBegin = 0
    /\ usedNetwork = FALSE
    /\ storedSome = FALSE
    /\ downloads = 0

\* mod.rs:389-409: the index config is read, then the cache file.
RegBegin ==
    /\ reg_pc = "idle"
    /\ downloads < MaxDownloads
    /\ \E key \in RefKeys, target \in RefTargets, configOk \in BOOLEAN :
         /\ reg_ref' = [key |-> key, target |-> target]
         /\ prior' = (key \in DOMAIN firstFS)
         /\ httpAtBegin' = httpRequests
         /\ IF ~configOk
            THEN /\ cacheOutcome' = "none"
                 /\ reg_result' = [kind |-> "ReadFile", fs |-> EmptyFS, target |-> "none"]
                 /\ reg_pc' = "done"
            ELSE \E outcome \in CacheReadOutcomes(key, cached) :
                   /\ cacheOutcome' = outcome
                   /\ CASE outcome = "ok" ->
                             /\ reg_result' = [kind |-> "Ok", fs |-> De(cacheText[key]),
                                               target |-> target]
                             /\ reg_pc' = "done"
                        [] outcome = "ioerr" ->
                             /\ reg_result' = [kind |-> "ReadIndex", fs |-> EmptyFS,
                                               target |-> "none"]
                             /\ reg_pc' = "done"
                        [] outcome = "notfound" ->
                             /\ reg_result' = NoResult
                             /\ reg_pc' = "http"
    /\ UNCHANGED <<cas, cached, cacheText, httpRequests, tarPos, fsEntries, firstFS,
                   usedNetwork, storedSome, downloads>>
    /\ UNCHANGED notRegVars

\* mod.rs:411-430: the GET request; an error of send, of the status or of the
\* body is a Download error.
RegHttp ==
    /\ reg_pc = "http"
    /\ httpRequests' = httpRequests + 1
    /\ usedNetwork' = TRUE
    /\ \E responseOk \in BOOLEAN :
         IF responseOk
         THEN /\ reg_pc' = "unpack"
              /\ UNCHANGED reg_result
         ELSE /\ reg_pc' = "done"
              /\ reg_result' = [kind |-> "Download", fs |-> EmptyFS, target |-> "none"]
    /\ UNCHANGED <<reg_ref, cas, cached, cacheText, tarPos, fsEntries, cacheOutcome,
                   firstFS, prior, httpAtBegin, storedSome, downloads>>
    /\ UNCHANGED notRegVars

\* mod.rs:432-447: one entry of the archive; an error of the stream, of
\* read_to_string or of store_in_cas is an Unpack error.
RegEntry ==
    /\ reg_pc = "unpack"
    /\ tarPos < MaxArchive
    /\ \E e \in TarEntries, entryOk \in BOOLEAN :
         IF entryOk
         THEN /\ cas' = CasAfterEntry(cas, e)
              /\ fsEntries' = FsAfterEntry(fsEntries, e)
              /\ storedSome' = (storedSome \/ ~e.dir)
              /\ tarPos' = tarPos + 1
              /\ UNCHANGED <<reg_pc, reg_result>>
         ELSE /\ reg_pc' = "done"
              /\ reg_result' = [kind |-> "Unpack", fs |-> EmptyFS, target |-> "none"]
              /\ UNCHANGED <<cas, fsEntries, storedSome, tarPos>>
    /\ UNCHANGED <<reg_ref, cached, cacheText, httpRequests, cacheOutcome, firstFS,
                   prior, httpAtBegin, usedNetwork, downloads>>
    /\ UNCHANGED notRegVars

\* mod.rs:449-458: the archive has ended; the PackageFS is written to the cache
\* file and returned with the ref's Target.
RegWriteIndex ==
    /\ reg_pc = "unpack"
    /\ \E writeOk \in BOOLEAN :
         IF writeOk
         THEN /\ cached' = cached \cup {reg_ref.key}
              /\ cacheText' = [cacheText EXCEPT ![reg_ref.key] = Ser(fsEntries)]
              /\ reg_result' = [kind |-> "Ok", fs |-> fsEntries, target |-> reg_ref.target]
              /\ firstFS' = IF reg_ref.key \in DOMAIN firstFS
                            THEN firstFS
                            ELSE MapInsert(firstFS, reg_ref.key, fsEntries)
         ELSE /\ reg_result' = [kind |-> "WriteIndex", fs |-> EmptyFS, target |-> "none"]
              /\ UNCHANGED <<cached, cacheText, firstFS>>
    /\ reg_pc' = "done"
    /\ UNCHANGED <<reg_ref, cas, httpRequests, tarPos, fsEntries, cacheOutcome, prior,
                   httpAtBegin, usedNetwork, storedSome, downloads>>
    /\ UNCHANGED notRegVars

\* download has returned; the next download may begin.
RegReturn ==
    /\ reg_pc = "done"
    /\ reg_pc' = "idle"
    /\ reg_ref' = NoRef
    /\ tarPos' = 0
    /\ fsEntries' = EmptyFS
    /\ cacheOutcome' = "none"
    /\ reg_result' = NoResult
    /\ prior' = FALSE
    /\ httpAtBegin' = 0
    /\ usedNetwork' = FALSE
    /\ storedSome' = FALSE
    /\ downloads' = downloads + 1
    /\ UNCHANGED <<cas, cached, cacheText, httpRequests, firstFS>>
    /\ UNCHANGED notRegVars

RegNext ==
    \/ RegBegin
    \/ RegHttp
    \/ RegEntry
    \/ RegWriteIndex
    \/ RegReturn

InitRegDl == RunIdle /\ CompatIdle /\ DlIdle /\ ResIdle /\ LinkIdle /\ PubIdle /\ RegInit

SpecRegDl == InitRegDl /\ [][RegNext]_vars

\* C6: after one successful download of a ref, a later download of a ref with
\* the same cache key sends no HTTP request; the cache file is there and a
\* read of it returns Ok with the PackageFS the first download returned and
\* the ref's Target; only a missing cache file leads to the network.
C6_CachedDownloadSkipsNetwork ==
    /\ (reg_pc # "idle" /\ prior) =>
          /\ httpRequests = httpAtBegin
          /\ ~usedNetwork
          /\ cacheOutcome # "notfound"
    /\ (reg_pc = "done" /\ prior /\ cacheOutcome = "ok") =>
          /\ reg_result.kind = "Ok"
          /\ reg_result.fs = firstFS[reg_ref.key]
          /\ reg_result.target = reg_ref.target
    /\ (reg_pc \in {"http", "unpack"} \/ usedNetwork) => cacheOutcome = "notfound"

\* A later download of a cached ref, of another Target than the first, has
\* returned a PackageFS that holds a file and a directory.
C6_Witness ==
    /\ reg_pc = "done"
    /\ prior
    /\ reg_result.kind = "Ok"
    /\ reg_result.target = "lune bin"
    /\ \E p, q \in DOMAIN reg_result.fs :
         reg_result.fs[p].tag = "f" /\ reg_result.fs[q].tag = "d"
    /\ httpRequests = 1

\* Every File(hash) of the PackageFS has its contents in the CAS.
BackedByCas(fs) ==
    \A p \in DOMAIN fs :
        fs[p].tag = "f" =>
            /\ fs[p].hash \in DOMAIN cas
            /\ Hash(cas[fs[p].hash]) = fs[p].hash

\* C7: every PackageFS download returns or has written to the cache has the
\* contents of each File(hash) in the CAS; the cache file is written only
\* after the whole archive was stored: while unpacking, and after a download
\* that failed after its request, the ref has no cache file.
C7_PackageFSBackedByCas ==
    /\ reg_result.kind = "Ok" => BackedByCas(reg_result.fs)
    /\ \A k \in cached : BackedByCas(De(cacheText[k]))
    /\ reg_pc \in {"http", "unpack"} => reg_ref.key \notin cached
    /\ (reg_pc = "done" /\ usedNetwork /\ reg_result.kind # "Ok") =>
          reg_ref.key \notin cached

\* A download failed part-way through its archive, after a file of it was
\* stored, while another ref's cached PackageFS holds a file.
C7_Witness ==
    /\ reg_pc = "done"
    /\ reg_result.kind = "Unpack"
    /\ storedSome
    /\ reg_ref.key \notin cached
    /\ \E k \in cached : \E p \in DOMAIN De(cacheText[k]) : De(cacheText[k])[p].tag = "f"

(***************************************************************************)
(* Project::link_dependencies (src/src/linking/mod.rs:33-251).             *)
(***************************************************************************)
MaxDeps == 1

PACKAGES_CONTAINER_NAME == ".pesde"

\* The packages of the graph, and their order in the BTreeMap.
LinkNodes == {"pkgA", "pkgB"}
LinkOrder == <<"pkgA", "pkgB">>

\* A dependency name with no node in the graph.
MissingName == "pkgMissing"
NameOrder == <<"pkgA", "pkgB", "pkgMissing">>

\* The alias a package is referred to by.
AliasOf == [n \in LinkNodes \cup {MissingName} |->
              IF n = "pkgA" THEN "a" ELSE IF n = "pkgB" THEN "b" ELSE "m"]

LinkKinds == {"roblox", "lune"}

\* target.lib_path(): none, the LINK_LIB_NO_FILE_FOUND placeholder, or a path
\* whose file is present in or missing from the container folder.
LibStates == {"none", "placeholder", "present", "missing"}

DepSets == {d \in SUBSET (LinkNodes \cup {MissingName}) : Cardinality(d) <= MaxDeps}

\* A node of the graph: its target's lib path and kind (a Roblox kind carries
\* build_files), whether it is a direct dependency and has a bin path, its
\* dependencies, and pkg_ref.like_wally().
AllNodeShapes ==
    {sh \in [lib : LibStates, direct : BOOLEAN, bin : BOOLEAN, kind : LinkKinds,
             deps : DepSets, wally : BOOLEAN] : sh.bin => sh.direct}

\* The nodes of registry packages.
NodeShapes == {sh \in AllNodeShapes : ~sh.wally}

LinkGraphs == {g \in [LinkNodes -> NodeShapes] : \A n \in LinkNodes : n \notin g[n].deps}

\* TargetKind::packages_folder(dependency kind).
PackagesFolder(consumer, dep) == <<"packages_folder", consumer, dep>>

\* Node::container_folder under <packages folder>/<PACKAGES_CONTAINER_NAME>.
ContainerFolder(base, n) == base \o <<PACKAGES_CONTAINER_NAME, n>>

\* Node::base_folder(dependency kind).
BaseFolder(n, depKind) == <<"base_folder", n, depKind>>

\* mod.rs:125-132: the folder of the node's kind under the root's kind.
NodeBaseFolder(g, root, n) == PackagesFolder(root, g[n].kind)

\* mod.rs:151: base_folder.join(format!("{alias}.luau")).
DirectShimPath(g, root, n) ==
    [dir |-> NodeBaseFolder(g, root, n), file |-> AliasOf[n], ext |-> "luau"]

\* mod.rs:171: base_folder.join(format!("{alias}.bin.luau")).
DirectBinPath(g, root, n) ==
    [dir |-> NodeBaseFolder(g, root, n), file |-> AliasOf[n], ext |-> "bin.luau"]

\* mod.rs:221-227: <node container>/<base_folder(dep kind)>/<dep alias>.luau.
EdgeShimPath(g, root, n, d) ==
    [dir |-> ContainerFolder(NodeBaseFolder(g, root, n), n) \o BaseFolder(n, g[d].kind),
     file |-> AliasOf[d], ext |-> "luau"]

\* A plausible bug: a library file that is not found counts as having no types.
TypePassOutcomes_missingIsEmpty(lib) ==
    CASE lib = "placeholder" -> {"ok"}
      [] lib = "present" -> {"ok", "ioerr", "parse_error"}
      [] lib = "missing" -> {"ok"}

\* mod.rs:58-86: what reading the types of a node with a lib path can give.
\* The placeholder is not read; a missing file is LibFileNotFound; a file that
\* is read may fail to parse.
TypePassOutcomes(lib) ==
    CASE lib = "placeholder" -> {"ok"}
      [] lib = "present" -> {"ok", "ioerr", "parse_error"}
      [] lib = "missing" -> {"notfound", "ioerr"}

TypePassError(outcome) ==
    CASE outcome = "notfound" -> "LibFileNotFound"
      [] outcome = "ioerr" -> "Io"
      [] outcome = "parse_error" -> "FullMoon"

\* mod.rs:71-83: the lists of exported type names get_file_types may give.
FileTypes(lib) == IF lib = "present" THEN {<<>>, <<"Props">>} ELSE {<<>>}

\* A plausible bug: an empty list of types is not recorded.
RecordTypes_onlyNonEmpty(types, n, list) ==
    IF list = <<>> THEN types
    ELSE [m \in (DOMAIN types) \cup {n} |-> IF m = n THEN list ELSE types[m]]

\* mod.rs:88-91: package_types.entry(name).or_default().insert(version_id, types).
RecordTypes(types, n, list) ==
    [m \in (DOMAIN types) \cup {n} |-> IF m = n THEN list ELSE types[m]]

\* The build_files of the packages' targets.
BuildFiles == [n \in LinkNodes |-> IF n = "pkgA" THEN <<"src">> ELSE <<"lib", "src">>]

\* A plausible bug: the script runs for packages of the compatibility registry too.
WantsSyncConfig_wallyToo(node) == node.kind = "roblox"

\* mod.rs:93-95: the target's build_files, unless the package is like_wally;
\* a target has build_files when its kind is a Roblox kind.
WantsSyncConfig(node) == node.kind = "roblox" /\ ~node.wally

\* mod.rs:104-111: the arguments of the script: the container folder, then
\* the names of the build files.
SyncCall(g, root, n) ==
    [node |-> n,
     folder |-> ContainerFolder(NodeBaseFolder(g, root, n), n),
     files |-> BuildFiles[n]]

\* A plausible bug: an edge to a package that is not in the graph is skipped.
EdgeStep_skipMissing(g, d) ==
    IF d \notin DOMAIN g THEN "skip"
    ELSE IF g[d].lib = "none" THEN "skip" ELSE "write"

\* mod.rs:191-203: the edge's node is looked up, and needs a lib path.
EdgeStep(g, d) ==
    IF d \notin DOMAIN g THEN "notfound"
    ELSE IF g[d].lib = "none" THEN "skip" ELSE "write"

\* The first name of the set in the BTreeMap's order.
FirstName(names) ==
    NameOrder[CHOOSE i \in 1..Len(NameOrder) :
                /\ NameOrder[i] \in names
                /\ \A j \in 1..(i - 1) : NameOrder[j] \notin names]

\* link_dependencies has not begun its first run.
LinkNotRun ==
    /\ link_pc = "start"
    /\ link_n = 0
    /\ edgesLeft = {}
    /\ package_types = [n \in {} |-> <<>>]
    /\ shims = {}
    /\ edgesPassed = {}
    /\ link_result = "none"
    /\ syncCalls = <<>>
    /\ filesRead = {}
    /\ link_run = 1
    /\ shimsAtStart = {}
    /\ linkedPaths = <<>>
    /\ link_io = "none"

LinkInit ==
    /\ linkGraph \in LinkGraphs
    /\ rootKind \in LinkKinds
    /\ has_script = TRUE
    /\ LinkNotRun

\* mod.rs:34: the manifest is read.
LinkStart ==
    /\ link_pc = "start"
    /\ \E manifestOk \in BOOLEAN :
         IF manifestOk
         THEN /\ link_pc' = "types"
              /\ link_n' = 1
              /\ UNCHANGED link_result
         ELSE /\ link_pc' = "done"
              /\ link_result' = "Manifest"
              /\ UNCHANGED link_n
    /\ UNCHANGED <<edgesLeft, linkGraph, rootKind, package_types, shims, edgesPassed>>
    /\ UNCHANGED linkMore
    /\ UNCHANGED notLinkVars

\* mod.rs:38-120: the first pass visits one node: a node without a lib path
\* is skipped; the library entry file is read unless the path is the
\* placeholder, its types are recorded, and the sync config generator script
\* is run for a target with build_files when the manifest names the script.
LinkTypes ==
    /\ link_pc = "types"
    /\ link_n <= Len(LinkOrder)
    /\ LET n == LinkOrder[link_n]
           node == linkGraph[n]
           runsScript == WantsSyncConfig(node) /\ has_script
       IN  IF node.lib = "none"
           THEN /\ link_n' = link_n + 1
                /\ UNCHANGED <<link_pc, package_types, link_result, syncCalls, filesRead,
                               link_io>>
           ELSE \E outcome \in TypePassOutcomes(node.lib), types \in FileTypes(node.lib),
                   syncOk \in BOOLEAN :
                  /\ outcome # "ok" => (types = <<>> /\ syncOk)
                  /\ ~runsScript => syncOk
                  /\ filesRead' = IF node.lib # "placeholder"
                                  THEN filesRead \cup {n} ELSE filesRead
                  /\ link_io' = IF outcome = "ioerr" THEN "Other" ELSE link_io
                  /\ IF outcome # "ok"
                     THEN /\ link_pc' = "done"
                          /\ link_result' = TypePassError(outcome)
                          /\ UNCHANGED <<link_n, package_types, syncCalls>>
                     ELSE /\ package_types' = RecordTypes(package_types, n, types)
                          /\ syncCalls' = IF runsScript
                                          THEN Append(syncCalls, SyncCall(linkGraph, rootKind, n))
                                          ELSE syncCalls
                          /\ IF syncOk
                             THEN /\ link_n' = link_n + 1
                                  /\ UNCHANGED <<link_pc, link_result>>
                             ELSE /\ link_pc' = "done"
                                  /\ link_result' = "GenerateRobloxSyncConfig"
                                  /\ UNCHANGED link_n
    /\ UNCHANGED <<edgesLeft, linkGraph, rootKind, shims, edgesPassed>>
    /\ UNCHANGED <<has_script, link_run, shimsAtStart, linkedPaths>>
    /\ UNCHANGED notLinkVars

\* mod.rs:120-122: the first pass has ended, the second begins.
LinkSecondPass ==
    /\ link_pc = "types"
    /\ link_n > Len(LinkOrder)
    /\ link_pc' = "direct"
    /\ link_n' = 1
    /\ UNCHANGED <<edgesLeft, linkGraph, rootKind, package_types, shims, edgesPassed,
                   link_result>>
    /\ UNCHANGED linkMore
    /\ UNCHANGED notLinkVars

\* write_cas (mod.rs:25-29): std::fs::hard_link fails on an existing destination.
CanLink(files, path) == path \notin files

\* mod.rs:124-186: the node's base folder is created; a direct node with a lib
\* path and recorded types gets <alias>.luau, one with a bin path gets
\* <alias>.bin.luau.
LinkDirect ==
    /\ link_pc = "direct"
    /\ link_n <= Len(LinkOrder)
    /\ LET n == LinkOrder[link_n]
           node == linkGraph[n]
           libShim == DirectShimPath(linkGraph, rootKind, n)
           binShim == DirectBinPath(linkGraph, rootKind, n)
           wantsLib == node.direct /\ node.lib # "none" /\ n \in DOMAIN package_types
           wantsBin == node.direct /\ node.bin
           afterLib == IF wantsLib THEN shims \cup {libShim} ELSE shims
           linkedLib == IF wantsLib THEN Append(linkedPaths, libShim) ELSE linkedPaths
       IN  \E outcome \in {"ok", "io_folder", "require_path", "io_lib", "io_bin",
                            "exists_lib", "exists_bin"} :
             /\ outcome \in {"require_path", "io_lib", "exists_lib"} => wantsLib
             /\ outcome \in {"io_bin", "exists_bin"} => wantsBin
             /\ outcome = "exists_lib" => ~CanLink(shims, libShim)
             /\ outcome \in {"ok", "io_bin", "exists_bin"} =>
                   (wantsLib => CanLink(shims, libShim))
             /\ outcome = "exists_bin" => ~CanLink(afterLib, binShim)
             /\ outcome = "ok" => (wantsBin => CanLink(afterLib, binShim))
             /\ link_io' = CASE outcome \in {"io_folder", "io_lib", "io_bin"} -> "Other"
                             [] outcome \in {"exists_lib", "exists_bin"} -> "AlreadyExists"
                             [] OTHER -> link_io
             /\ CASE outcome = "ok" ->
                       /\ shims' = IF wantsBin THEN afterLib \cup {binShim} ELSE afterLib
                       /\ linkedPaths' = IF wantsBin THEN Append(linkedLib, binShim)
                                         ELSE linkedLib
                       /\ link_pc' = "edges"
                       /\ edgesLeft' = node.deps
                       /\ UNCHANGED link_result
                  [] outcome \in {"io_bin", "exists_bin"} ->
                       /\ shims' = afterLib
                       /\ linkedPaths' = linkedLib
                       /\ link_pc' = "done"
                       /\ link_result' = "Io"
                       /\ UNCHANGED edgesLeft
                  [] outcome \in {"io_folder", "io_lib", "exists_lib"} ->
                       /\ link_pc' = "done"
                       /\ link_result' = "Io"
                       /\ UNCHANGED <<shims, edgesLeft, linkedPaths>>
                  [] outcome = "require_path" ->
                       /\ link_pc' = "done"
                       /\ link_result' = "GetLibRequirePath"
                       /\ UNCHANGED <<shims, edgesLeft, linkedPaths>>
    /\ UNCHANGED <<link_n, linkGraph, rootKind, package_types, edgesPassed>>
    /\ UNCHANGED <<has_script, syncCalls, filesRead, link_run, shimsAtStart>>
    /\ UNCHANGED notLinkVars

\* mod.rs:188-246: one dependency edge of the visited node.
LinkEdge ==
    /\ link_pc = "edges"
    /\ edgesLeft # {}
    /\ LET n == LinkOrder[link_n]
           d == FirstName(edgesLeft)
           step == EdgeStep(linkGraph, d)
       IN  CASE step = "notfound" ->
                  /\ link_pc' = "done"
                  /\ link_result' = "DependencyNotFound"
                  /\ UNCHANGED <<edgesLeft, shims, edgesPassed, linkedPaths, link_io>>
             [] step = "skip" ->
                  /\ edgesLeft' = edgesLeft \ {d}
                  /\ edgesPassed' = edgesPassed \cup {<<n, d>>}
                  /\ UNCHANGED <<link_pc, link_result, shims, linkedPaths, link_io>>
             [] step = "write" ->
                  \E outcome \in {"ok", "io", "require_path"} :
                    CASE outcome = "io" ->
                           /\ link_pc' = "done"
                           /\ link_result' = "Io"
                           /\ link_io' = "Other"
                           /\ UNCHANGED <<edgesLeft, shims, edgesPassed, linkedPaths>>
                      [] outcome = "require_path" ->
                           /\ link_pc' = "done"
                           /\ link_result' = "GetLibRequirePath"
                           /\ UNCHANGED <<edgesLeft, shims, edgesPassed, linkedPaths, link_io>>
                      [] outcome = "ok" ->
                           IF d \notin DOMAIN package_types
                           THEN /\ link_pc' = "done"
                                /\ link_result' = "panic"
                                /\ UNCHANGED <<edgesLeft, shims, edgesPassed, linkedPaths,
                                               link_io>>
                           ELSE IF ~CanLink(shims, EdgeShimPath(linkGraph, rootKind, n, d))
                           THEN /\ link_pc' = "done"
                                /\ link_result' = "Io"
                                /\ link_io' = "AlreadyExists"
                                /\ UNCHANGED <<edgesLeft, shims, edgesPassed, linkedPaths>>
                           ELSE /\ UNCHANGED link_io
                                /\ shims' = shims \cup
                                              {EdgeShimPath(linkGraph, rootKind, n, d)}
                                /\ linkedPaths' =
                                      Append(linkedPaths,
                                             EdgeShimPath(linkGraph, rootKind, n, d))
                                /\ edgesLeft' = edgesLeft \ {d}
                                /\ edgesPassed' = edgesPassed \cup {<<n, d>>}
                                /\ UNCHANGED <<link_pc, link_result>>
    /\ UNCHANGED <<link_n, linkGraph, rootKind, package_types>>
    /\ UNCHANGED <<has_script, syncCalls, filesRead, link_run, shimsAtStart>>
    /\ UNCHANGED notLinkVars

\* mod.rs:246-247: the node's edges are linked, the next node is visited.
LinkNextNode ==
    /\ link_pc = "edges"
    /\ edgesLeft = {}
    /\ link_pc' = "direct"
    /\ link_n' = link_n + 1
    /\ UNCHANGED <<edgesLeft, linkGraph, rootKind, package_types, shims, edgesPassed,
                   link_result>>
    /\ UNCHANGED linkMore
    /\ UNCHANGED notLinkVars

\* mod.rs:250: Ok(()).
LinkReturnOk ==
    /\ link_pc = "direct"
    /\ link_n > Len(LinkOrder)
    /\ link_pc' = "done"
    /\ link_result' = "Ok"
    /\ UNCHANGED <<link_n, edgesLeft, linkGraph, rootKind, package_types, shims,
                   edgesPassed>>
    /\ UNCHANGED linkMore
    /\ UNCHANGED notLinkVars

LinkNext ==
    \/ LinkStart
    \/ LinkTypes
    \/ LinkSecondPass
    \/ LinkDirect
    \/ LinkEdge
    \/ LinkNextNode
    \/ LinkReturnOk

InitLink == RunIdle /\ CompatIdle /\ DlIdle /\ ResIdle /\ RegIdle /\ PubIdle /\ LinkInit

SpecLink == InitLink /\ [][LinkNext]_vars

\* Graphs that also hold packages of the compatibility registry (always of a
\* Roblox kind), linked under a manifest with or without the sync script.
SyncGraphs ==
    {g \in [LinkNodes -> {sh \in AllNodeShapes : sh.wally => sh.kind = "roblox"}] :
        \A n \in LinkNodes : n \notin g[n].deps}

LinkSyncInit ==
    /\ linkGraph \in SyncGraphs
    /\ rootKind \in LinkKinds
    /\ has_script \in BOOLEAN
    /\ LinkNotRun

\* link_dependencies is called again on the project and graph it linked:
\* the shims of the first run are in place.
LinkRerun ==
    /\ link_pc = "done"
    /\ link_result = "Ok"
    /\ link_run = 1
    /\ link_run' = 2
    /\ link_pc' = "start"
    /\ link_n' = 0
    /\ edgesLeft' = {}
    /\ package_types' = [n \in {} |-> <<>>]
    /\ edgesPassed' = {}
    /\ link_result' = "none"
    /\ syncCalls' = <<>>
    /\ filesRead' = {}
    /\ shimsAtStart' = shims
    /\ linkedPaths' = <<>>
    /\ UNCHANGED <<linkGraph, rootKind, shims, has_script, link_io>>
    /\ UNCHANGED notLinkVars

RelinkNext ==
    \/ LinkNext
    \/ LinkRerun

InitRelink == RunIdle /\ CompatIdle /\ DlIdle /\ ResIdle /\ RegIdle /\ PubIdle /\ LinkInit

SpecRelink == InitRelink /\ [][RelinkNext]_vars

InitLinkSync == RunIdle /\ CompatIdle /\ DlIdle /\ ResIdle /\ RegIdle /\ PubIdle /\ LinkSyncInit

SpecLinkSync == InitLinkSync /\ [][LinkNext]_vars

\* ---------------------------------------------------------------------------
\* The target of a package of the compatibility registry
\* (src/src/source/wally/compat_util.rs).

MaxPaths == 2

\* lib.rs:42
LINK_LIB_NO_FILE_FOUND == "____pesde_no_export_file_found"

\* RelativePathBuf::as_str of a path with the given stem and extension.
AsStr(path) == IF path.ext = "" THEN path.stem ELSE path.stem \o "." \o path.ext

\* RelativePathBuf::from(LINK_LIB_NO_FILE_FOUND): the name has no extension.
NoFileFoundPath == [stem |-> LINK_LIB_NO_FILE_FOUND, ext |-> ""]

\* The paths a sourcemap may list.
SourcemapPaths ==
    {[stem |-> "default.project", ext |-> "json"], [stem |-> "src", ext |-> ""],
     [stem |-> "src/init", ext |-> "lua"], [stem |-> "lib/main", ext |-> "luau"]}

FilePathLists == UNION {[1..k -> SourcemapPaths] : k \in 0..MaxPaths}

\* What get_target reads: whether the manifest deserializes and names a
\* sourcemap generator script, what the script gives (an error, nothing, an
\* empty string, a string that is not a sourcemap, a sourcemap), the
\* sourcemap's filePaths, and wally.toml (its realm, or why it cannot be read).
CompatInputs ==
    [manifest_ok : BOOLEAN, script : BOOLEAN,
     run : {"error", "none", "empty", "invalid", "output"},
     file_paths : FilePathLists,
     wally_toml : {"io", "invalid", "shared", "server"}]

\* A plausible bug: the first listed path is taken whatever its extension.
FindScript_firstEntry(paths) == IF paths = <<>> THEN NoPath ELSE paths[1]

\* compat_util.rs:46-49: the first path whose extension is lua or luau.
FindScript(paths) ==
    LET scripts == {i \in 1..Len(paths) : paths[i].ext \in {"lua", "luau"}}
    IN  IF scripts = {} THEN NoPath
        ELSE paths[CHOOSE i \in scripts : \A j \in scripts : i <= j]

\* compat_util.rs:21-52: find_lib_path.
FindLibPath(in) ==
    CASE ~in.manifest_ok -> [ok |-> FALSE, err |-> "Manifest", lib |-> NoPath]
      [] in.manifest_ok /\ ~in.script -> [ok |-> TRUE, err |-> "none", lib |-> NoPath]
      [] in.manifest_ok /\ in.script /\ in.run = "error" ->
            [ok |-> FALSE, err |-> "Script", lib |-> NoPath]
      [] in.manifest_ok /\ in.script /\ in.run \in {"none", "empty"} ->
            [ok |-> TRUE, err |-> "none", lib |-> NoPath]
      [] in.manifest_ok /\ in.script /\ in.run = "invalid" ->
            [ok |-> FALSE, err |-> "Serde", lib |-> NoPath]
      [] in.manifest_ok /\ in.script /\ in.run = "output" ->
            [ok |-> TRUE, err |-> "none", lib |-> FindScript(in.file_paths)]

\* compat_util.rs:56-73: get_target. An unreadable wally.toml is a
\* std::io::Error, which FindLibPathError holds as Script.
GetTarget(in) ==
    LET found == FindLibPath(in)
        lib == IF found.lib = NoPath THEN NoFileFoundPath ELSE found.lib
    IN  CASE ~found.ok -> [ok |-> FALSE, err |-> found.err, target |-> NoTarget]
          [] found.ok /\ in.wally_toml = "io" ->
                [ok |-> FALSE, err |-> "Script", target |-> NoTarget]
          [] found.ok /\ in.wally_toml = "invalid" ->
                [ok |-> FALSE, err |-> "WallyManifest", target |-> NoTarget]
          [] found.ok /\ in.wally_toml \in {"shared", "server"} ->
                [ok |-> TRUE, err |-> "none",
                 target |-> [kind |-> IF in.wally_toml = "shared"
                                      THEN "roblox" ELSE "roblox_server",
                             lib |-> lib,
                             build_files |-> <<>>]]

CompatInit ==
    /\ compat_pc = "start"
    /\ compat_in \in CompatInputs
    /\ compat_result = [ok |-> FALSE, err |-> "none", target |-> NoTarget]

\* get_target is called on the downloaded package.
CompatGetTarget ==
    /\ compat_pc = "start"
    /\ compat_pc' = "done"
    /\ compat_result' = GetTarget(compat_in)
    /\ UNCHANGED compat_in
    /\ UNCHANGED linkVars
    /\ UNCHANGED notCompatVars

\* mod.rs:58: what the linker finds at a lib path: the placeholder is told
\* by its name; any other path names a file that is there or not.
LibStatesOf(lib) ==
    IF AsStr(lib) = LINK_LIB_NO_FILE_FOUND THEN {"placeholder"} ELSE {"present", "missing"}

\* The graphs that hold the package with its target, as a direct dependency
\* or as the dependency of a package of the registry.
CompatGraphs(target) ==
    {g \in SyncGraphs :
        /\ g["pkgA"].wally
        /\ g["pkgA"].lib \in LibStatesOf(target.lib)
        /\ ~g["pkgA"].bin
        /\ g["pkgA"].deps = {}
        /\ g["pkgB"] = [lib |-> "present", direct |-> TRUE, bin |-> FALSE, kind |-> "lune",
                        deps |-> {"pkgA"}, wally |-> FALSE]}

\* link_dependencies is called on a graph that holds the package.
CompatLink ==
    /\ compat_pc = "done"
    /\ compat_result.ok
    /\ compat_pc' = "linked"
    /\ linkGraph' \in CompatGraphs(compat_result.target)
    /\ rootKind' \in LinkKinds
    /\ has_script' = TRUE
    /\ link_pc' = "start"
    /\ link_run' = 1
    /\ package_types' = [n \in {} |-> <<>>]
    /\ UNCHANGED <<link_n, edgesLeft, shims, edgesPassed, link_result, syncCalls, filesRead,
                   shimsAtStart, linkedPaths, link_io>>
    /\ UNCHANGED <<compat_in, compat_result>>
    /\ UNCHANGED notCompatVars

CompatNext ==
    \/ CompatGetTarget
    \/ CompatLink
    \/ LinkNext

InitCompat == RunIdle /\ DlIdle /\ ResIdle /\ RegIdle /\ PubIdle /\ LinkIdle /\ CompatInit

SpecCompat == InitCompat /\ [][CompatNext]_vars

\* The library entry file of the node is on disk in its container folder.
LibFileExists(n) == linkGraph[n].lib = "present"

\* C8 as stated: after Ok every direct node has its shim
\* <packages_folder(root kind, node kind)>/<alias>.luau, and its library entry
\* file is on disk.
C8_EveryDirectNodeHasShim ==
    link_result = "Ok" =>
        \A n \in LinkNodes :
            linkGraph[n].direct =>
                /\ DirectShimPath(linkGraph, rootKind, n) \in shims
                /\ LibFileExists(n)

\* C8, amended: after Ok every direct node whose target has a lib path has its
\* shim <packages_folder(root kind, node kind)>/<alias>.luau, and, unless the
\* lib path is the no-file-found placeholder, its library entry file is on
\* disk; a direct node whose target has no lib path has no such shim.
C8_DirectNodeWithLibHasShim ==
    link_result = "Ok" =>
        \A n \in LinkNodes :
            linkGraph[n].direct =>
                /\ linkGraph[n].lib # "none" =>
                      DirectShimPath(linkGraph, rootKind, n) \in shims
                /\ linkGraph[n].lib \notin {"none", "placeholder"} => LibFileExists(n)
                /\ linkGraph[n].lib = "none" =>
                      DirectShimPath(linkGraph, rootKind, n) \notin shims

\* Linking returned Ok for a graph with a direct node whose file is present, of
\* another kind than the root, a direct node without a lib path and with a bin
\* path.
C8_Witness ==
    /\ link_result = "Ok"
    /\ linkGraph["pkgA"].direct
    /\ linkGraph["pkgA"].lib = "present"
    /\ linkGraph["pkgA"].kind # rootKind
    /\ DirectShimPath(linkGraph, rootKind, "pkgA") \in shims
    /\ linkGraph["pkgB"].direct
    /\ linkGraph["pkgB"].lib = "none"
    /\ DirectBinPath(linkGraph, rootKind, "pkgB") \in shims

\* C9: an edge to a package that is not in the graph is never passed over:
\* the run that comes to it returns DependencyNotFound, so after Ok every edge
\* has its node; and every edge that was passed, and whose dependency has a
\* lib path, has its shim
\* <consumer container>/<base_folder(dep kind)>/<dep alias>.luau.
C9_EdgesLinkedOrNotFound ==
    /\ \A e \in edgesPassed :
          /\ e[2] \in LinkNodes
          /\ linkGraph[e[2]].lib # "none" =>
                EdgeShimPath(linkGraph, rootKind, e[1], e[2]) \in shims
    /\ link_result = "Ok" =>
          \A n \in LinkNodes : \A d \in linkGraph[n].deps : <<n, d>> \in edgesPassed
    /\ link_result = "DependencyNotFound" =>
          /\ link_pc = "done"
          /\ MissingName \in linkGraph[LinkOrder[link_n]].deps

\* Linking returned Ok for a graph where each package depends on the other,
\* the one without a lib path; the edge to the one with a lib path has its
\* shim.
C9_Witness ==
    /\ link_result = "Ok"
    /\ linkGraph["pkgA"].deps = {"pkgB"}
    /\ linkGraph["pkgB"].deps = {"pkgA"}
    /\ linkGraph["pkgA"].lib = "none"
    /\ linkGraph["pkgB"].lib = "present"
    /\ EdgeShimPath(linkGraph, rootKind, "pkgA", "pkgB") \in shims
    /\ EdgeShimPath(linkGraph, rootKind, "pkgB", "pkgA") \notin shims

\* Linking came to an edge to a package that is not in the graph.
C9_WitnessNotFound ==
    /\ link_result = "DependencyNotFound"
    /\ MissingName \in linkGraph["pkgB"].deps
    /\ link_n = Len(LinkOrder)

(***************************************************************************)
(* PublishCommand::run_impl (src/src/cli/commands/publish.rs:41-540).      *)
(***************************************************************************)

\* What the checks of run_impl read of the manifest.
PubManifests ==
    [private : BOOLEAN, lib_path : BOOLEAN, bin_path : BOOLEAN, roblox : BOOLEAN,
     build_files_empty : BOOLEAN]

\* The packages of the locked graph.
LockNodes == {"depA", "depB"}

\* What the checks read of a node of the locked graph: whether it is a direct
\* dependency, its dependency type, and whether its target is a Roblox one
\* (target.build_files() is Some).
LockNodeShapes == [direct : BOOLEAN, ty : {"Normal", "Dev", "Peer"}, roblox : BOOLEAN]

\* The graphs of a lockfile: every package is reached from a direct one.
LockGraphs ==
    UNION {{g \in [ns -> LockNodeShapes] : ns # {} => \E n \in ns : g[n].direct} :
             ns \in SUBSET LockNodes}

\* up_to_date_lockfile: an error, None (the lockfile is missing or does not
\* match the manifest), or the lockfile with its graph.
Lockfiles ==
    [state : {"error", "outdated"}, graph : {<<>>}]
        \cup [state : {"uptodate"}, graph : LockGraphs]

\* A plausible bug: the dependencies of the locked graph are not looked at.
HasNonRobloxDependency_never(graph) == FALSE

\* publish.rs:73-81: a direct node, not a dev dependency, whose target has no
\* build files.
HasNonRobloxDependency(graph) ==
    \E n \in DOMAIN graph :
        /\ graph[n].direct
        /\ ~graph[n].roblox
        /\ graph[n].ty # "Dev"

\* A plausible bug: a lockfile that is not up to date is let through.
LockfileGate_outdatedPasses(lock) ==
    CASE lock.state = "error" -> "lockfile error"
      [] lock.state = "outdated" -> "pass"
      [] lock.state = "uptodate" ->
           IF HasNonRobloxDependency(lock.graph)
           THEN "roblox packages may not depend on non-roblox packages"
           ELSE "pass"

\* publish.rs:71-89: the lockfile check of a Roblox target.
LockfileGate(lock) ==
    CASE lock.state = "error" -> "lockfile error"
      [] lock.state = "outdated" -> "outdated lockfile"
      [] lock.state = "uptodate" ->
           IF HasNonRobloxDependency(lock.graph)
           THEN "roblox packages may not depend on non-roblox packages"
           ELSE "pass"

\* A plausible bug: the private flag is not looked at.
PublishGate_ignoresPrivate(m, lock) ==
    IF ~m.lib_path /\ ~m.bin_path THEN "no exports found in target"
    ELSE IF ~m.roblox THEN "pass"
    ELSE IF m.build_files_empty THEN "no build files found in target"
    ELSE LockfileGate(lock)

\* publish.rs:53-90: the checks made before the archive builder is created.
PublishGate(m, lock) ==
    IF m.private THEN "private"
    ELSE IF ~m.lib_path /\ ~m.bin_path THEN "no exports found in target"
    ELSE IF ~m.roblox THEN "pass"
    ELSE IF m.build_files_empty THEN "no build files found in target"
    ELSE LockfileGate(lock)

DEFAULT_INDEX_NAME == "default"

\* publish.rs:531: StatusCode::is_success, the status is in 200..=299.
IsSuccess(code) == code \in 200..299

\* A plausible bug: only 200 and 201 count as success.
StatusResult_onlyCreated(status) ==
    IF status \in {409, 403, 400, 200, 201} THEN "Ok" ELSE "failed to publish package"

\* publish.rs:518-539: the result for the response's status. The arms for
\* CONFLICT, FORBIDDEN and BAD_REQUEST print a line and fall through to Ok(()).
StatusResult(status) ==
    CASE status = 409 -> "Ok"
      [] status = 403 -> "Ok"
      [] status = 400 -> "Ok"
      [] ~IsSuccess(status) -> "failed to publish package"
      [] OTHER -> "Ok"

NoMessage == [kind |-> "none", text |-> ""]

NoResponse == [status |-> 0, text |-> ""]

\* publish.rs:518-537: the line printed for the response's status and text.
StatusMessage(status, text) ==
    CASE status = 409 -> [kind |-> "package version already exists", text |-> ""]
      [] status = 403 -> [kind |-> "unauthorized to publish under this scope", text |-> ""]
      [] status = 400 -> [kind |-> "invalid package", text |-> text]
      [] ~IsSuccess(status) -> NoMessage
      [] OTHER -> [kind |-> "text", text |-> text]

\* Statuses and bodies of the registry's response.
Statuses == {200, 201, 204, 301, 400, 403, 404, 409, 500}

Texts == {"published", "name is reserved"}

\* Largest archive, in bytes.
MaxArchiveLen == 3

\* publish.rs:454-458: the lengths the finished archive may have. The bytes
\* are a gzip stream of the tar entries: the length depends on the contents of
\* the files, not only on their total size, and the stream is never empty.
ArchiveLens == 1..MaxArchiveLen

\* publish.rs:468-489: the fields of the index's config that run_impl reads.
Configs ==
    [max_archive_size : 0..MaxArchiveLen, git_allowed : BOOLEAN, wally_allowed : BOOLEAN]

\* A plausible bug: an archive of exactly the maximum size is refused.
ExceedsMaxSize_atLimit(len, max) == len >= max

\* publish.rs:472: archive.len() > config.max_archive_size.
ExceedsMaxSize(len, max) == len > max

\* A plausible bug: a dry run uploads too.
SendMode_alwaysPost(dry) == "post"

\* publish.rs:491-502: a dry run writes package.tar.gz and returns; otherwise
\* the archive is posted.
SendMode(dry) == IF dry THEN "write" ELSE "post"

\* A plausible bug: the git policy of the index is not consulted.
PolicyGate_gitIgnored(cfg, len, ind, env, conflict, git, wally) ==
    IF DEFAULT_INDEX_NAME \notin (IF ind = <<>> THEN {} ELSE DOMAIN ind)
    THEN "missing default index"
    ELSE IF env # "ok" THEN env
    ELSE IF ExceedsMaxSize(len, cfg.max_archive_size)
    THEN "archive size exceeds maximum size"
    ELSE IF conflict THEN "dependency conflict"
    ELSE IF ~cfg.wally_allowed /\ wally THEN "wally dependencies are not allowed"
    ELSE "pass"

\* publish.rs:460-489: the checks between the finished archive and the
\* upload, in the order of the code. env is what refresh and config of the
\* index's source give; conflict is the error of all_dependencies.
PolicyGate(cfg, len, ind, env, conflict, git, wally) ==
    IF DEFAULT_INDEX_NAME \notin (IF ind = <<>> THEN {} ELSE DOMAIN ind)
    THEN "missing default index"
    ELSE IF env # "ok" THEN env
    ELSE IF ExceedsMaxSize(len, cfg.max_archive_size)
    THEN "archive size exceeds maximum size"
    ELSE IF conflict THEN "dependency conflict"
    ELSE IF ~cfg.git_allowed /\ git THEN "git dependencies are not allowed"
    ELSE IF ~cfg.wally_allowed /\ wally THEN "wally dependencies are not allowed"
    ELSE "pass"

MANIFEST_FILE_NAME == "pesde.toml"

\* Names of files and directories of the project folder, in the order of the
\* includes set.
IncludeOrder ==
    <<".git", "Pesde.toml", "README.md", "default.project.json", "pesde.toml",
      "rokit.toml", "src">>

IncludeNames == {IncludeOrder[i] : i \in 1..Len(IncludeOrder)}

\* The names of the project folder that are directories.
ProjectDirs == {".git", "src"}

\* The block-list of the package sources.
IGNORED_FILES == {"rokit.toml"}
IGNORED_DIRS == {".git"}

\* The names the normalization removes.
RemovedNames == {".git", "default.project.json"} \cup IGNORED_FILES \cup IGNORED_DIRS

\* A plausible bug: the block-list is not applied.
NormalizeIncludes_keepsIgnored(inc) ==
    ((inc \cup {MANIFEST_FILE_NAME}) \ {".git"}) \ {"default.project.json"}

\* publish.rs:112-164: the manifest file name is inserted; .git,
\* default.project.json and the ignored files and directories are removed.
NormalizeIncludes(inc) ==
    (((inc \cup {MANIFEST_FILE_NAME}) \ {".git"}) \ {"default.project.json"})
        \ (IGNORED_FILES \cup IGNORED_DIRS)

\* A plausible bug: the manifest is appended with the other includes.
IsManifestName_never(name) == FALSE

\* str::eq_ignore_ascii_case(MANIFEST_FILE_NAME), over the names above.
IsManifestName(name) == name \in {"pesde.toml", "Pesde.toml"}

\* publish.rs:233-247: a file is appended by append_file, a directory by
\* append_dir_all.
IncludeEntry(name) ==
    [name |-> name, kind |-> IF name \in ProjectDirs THEN "dir" ELSE "file"]

\* publish.rs:221-248: the entries appended for the includes, in the set's
\* order; a name that is the manifest's, whatever its case, is passed over.
RECURSIVE AppendIncludes(_, _)
AppendIncludes(inc, i) ==
    IF i > Len(IncludeOrder) THEN <<>>
    ELSE (IF IncludeOrder[i] \in inc /\ ~IsManifestName(IncludeOrder[i])
          THEN <<IncludeEntry(IncludeOrder[i])>> ELSE <<>>)
             \o AppendIncludes(inc, i + 1)

\* publish.rs:283-287: dependencies, then dev_dependencies, then
\* peer_dependencies.
DepMaps == <<"dependencies", "dev_dependencies", "peer_dependencies">>

\* No specifier in the map.
Absent == [kind |-> "absent", index |-> "none", vtype |-> "none", version |-> "none",
           target |-> "none"]

\* Registry specifiers: the index is not given, or an alias.
PesdeSpecs ==
    [kind : {"pesde"}, index : {"none", "default", "extra"}, vtype : {"none"},
     version : {"^0.3.0"}, target : {"none"}]

\* Compatibility-registry specifiers.
WallySpecs ==
    [kind : {"wally"}, index : {"none", "extra"}, vtype : {"none"},
     version : {"^0.3.0"}, target : {"none"}]

GitSpecs ==
    [kind : {"git"}, index : {"none"}, vtype : {"none"}, version : {"none"},
     target : {"none"}]

\* Workspace specifiers: a version type (the wildcard or a comparator prefix)
\* or a full requirement, and an optional target.
WorkspaceSpecs ==
    [kind : {"workspace"}, index : {"none"}, vtype : {"*", "^", "~", "="},
     version : {"none"}, target : {"none"}]
        \cup [kind : {"workspace"}, index : {"none"}, vtype : {"req"},
              version : {">=1.2.0"}, target : {"none"}]
        \cup [kind : {"workspace"}, index : {"none"}, vtype : {"^"},
              version : {"none"}, target : {"luau"}]

Specifiers == {Absent} \cup PesdeSpecs \cup WallySpecs \cup GitSpecs \cup WorkspaceSpecs

\* The indices maps of a manifest.
IndexMaps ==
    {<<>>,
     [a \in {"default"} |-> "https://registry/default"],
     [a \in {"default", "extra"} |->
        IF a = "default" THEN "https://registry/default" ELSE "https://registry/extra"]}

WallyIndexMaps == {<<>>, [a \in {"extra"} |-> "https://wally/extra"]}

\* The workspace member: none is found, or its manifest's version, default
\* index and target kind.
NoMember == [version |-> "none", default_index |-> "none", kind |-> "none"]

Members ==
    {NoMember} \cup
        [version : {"1.0.0", "2.1.0"}, default_index : {"none", "https://member/default"},
         kind : {"lune"}]

\* The keys of a map.
MapKeys(map) == IF map = <<>> THEN {} ELSE DOMAIN map

\* publish.rs:291-295: the alias of the specifier, the default one if none.
IndexName(spec) == IF spec.index = "none" THEN DEFAULT_INDEX_NAME ELSE spec.index

\* A plausible bug: the alias is left in the index field.
RewriteIndexed_keepsAlias(spec, map, what) ==
    IF IndexName(spec) \in MapKeys(map)
    THEN [error |-> "none", spec |-> [spec EXCEPT !.index = IndexName(spec)]]
    ELSE [error |-> what, spec |-> spec]

\* publish.rs:291-302 and 308-321: the index field becomes the URL the map
\* holds for the alias; an alias that is not in the map is an error.
RewriteIndexed(spec, map, what) ==
    IF IndexName(spec) \in MapKeys(map)
    THEN [error |-> "none", spec |-> [spec EXCEPT !.index = map[IndexName(spec)]]]
    ELSE [error |-> what, spec |-> spec]

\* A plausible bug: the comparator prefix is dropped.
WorkspaceVersion_noPrefix(spec, mem) ==
    CASE spec.vtype = "*" -> "*"
      [] spec.vtype = "req" -> spec.version
      [] OTHER -> mem.version

\* publish.rs:350-357: the wildcard is the requirement *, a requirement is
\* kept, a comparator prefix is followed by the member's version.
WorkspaceVersion(spec, mem) ==
    CASE spec.vtype = "*" -> "*"
      [] spec.vtype = "req" -> spec.version
      [] OTHER -> spec.vtype \o mem.version

\* publish.rs:326-367: the Workspace specifier becomes a Registry one.
RewriteWorkspace(spec, mem) ==
    IF mem = NoMember
    THEN [error |-> "failed to resolve workspace package", spec |-> spec]
    ELSE IF mem.default_index = "none"
    THEN [error |-> "missing default index in workspace package manifest", spec |-> spec]
    ELSE [error |-> "none",
          spec |-> [kind |-> "pesde",
                    index |-> mem.default_index,
                    vtype |-> "none",
                    version |-> WorkspaceVersion(spec, mem),
                    target |-> IF spec.target # "none" THEN spec.target ELSE mem.kind]]

\* publish.rs:289-368: what the loop does with one specifier.
RewriteSpecifier(spec, ind, wind, mem) ==
    CASE spec.kind = "pesde" -> RewriteIndexed(spec, ind, "index not found in indices field")
      [] spec.kind = "wally" ->
           RewriteIndexed(spec, wind, "index not found in wally_indices field")
      [] spec.kind = "workspace" -> RewriteWorkspace(spec, mem)
      [] OTHER -> [error |-> "none", spec |-> spec]

\* A manifest with one Registry dependency on the default index.
PlainDeps ==
    /\ depsIn = [d \in {DepMaps[i] : i \in 1..Len(DepMaps)} |->
                   IF d = "dependencies"
                   THEN [kind |-> "pesde", index |-> "none", vtype |-> "none",
                         version |-> "^0.3.0", target |-> "none"]
                   ELSE Absent]
    /\ indices = [a \in {"default"} |-> "https://registry/default"]
    /\ wally_indices = <<>>
    /\ member = NoMember

\* An index that accepts the archive and every kind of dependency.
PlainIndex ==
    /\ treeBytes = 1
    /\ config = [max_archive_size |-> MaxArchiveLen, git_allowed |-> TRUE,
                 wally_allowed |-> TRUE]

\* run_impl has not begun.
PubNotRun ==
    /\ pub_pc = "start"
    /\ archiveCreated = FALSE
    /\ archiveFinished = FALSE
    /\ posts = 0
    /\ tarballWritten = FALSE
    /\ pub_result = "none"
    /\ includes = includesIn
    /\ archive = <<>>
    /\ deps = depsIn
    /\ rewriteAt = 0
    /\ has_git = FALSE
    /\ has_wally = FALSE
    /\ archiveLen = 0
    /\ overage = 0
    /\ response = NoResponse
    /\ pub_message = NoMessage

PubInit ==
    /\ pub_manifest \in PubManifests
    /\ lockfile \in Lockfiles
    /\ dry_run \in BOOLEAN
    /\ yes \in BOOLEAN
    /\ includesIn = {"src"}
    /\ libPart = "src"
    /\ binPart = "src"
    /\ PlainDeps
    /\ PlainIndex
    /\ PubNotRun

\* publish.rs:42-95: the manifest is read and checked; then the archive
\* builder is created.
PubCheck ==
    /\ pub_pc = "start"
    /\ \E manifestOk \in BOOLEAN :
         IF ~manifestOk
         THEN /\ pub_pc' = "done"
              /\ pub_result' = "failed to read manifest"
              /\ UNCHANGED archiveCreated
         ELSE LET gate == PublishGate(pub_manifest, lockfile)
              IN  CASE gate = "pass" ->
                         /\ pub_pc' = "build"
                         /\ archiveCreated' = TRUE
                         /\ UNCHANGED pub_result
                    [] gate = "private" ->
                         /\ pub_pc' = "done"
                         /\ pub_result' = "Ok"
                         /\ UNCHANGED archiveCreated
                    [] OTHER ->
                         /\ pub_pc' = "done"
                         /\ pub_result' = gate
                         /\ UNCHANGED archiveCreated
    /\ pub_message' = IF pub_pc' = "done" /\ pub_result' = "Ok"
                      THEN [kind |-> "package is private, cannot publish", text |-> ""]
                      ELSE pub_message
    /\ UNCHANGED <<pub_manifest, lockfile, dry_run, yes, archiveFinished, posts,
                   tarballWritten>>
    /\ UNCHANGED pubFiles
    /\ UNCHANGED pubDeps
    /\ UNCHANGED <<treeBytes, archiveLen, config, overage, response>>
    /\ UNCHANGED notPubVars

\* publish.rs:97-164: the includes are normalized.
PubNormalize ==
    /\ pub_pc = "build"
    /\ pub_pc' = "exports"
    /\ includes' = NormalizeIncludes(includes)
    /\ UNCHANGED <<pub_manifest, lockfile, dry_run, yes, archiveCreated, archiveFinished,
                   posts, tarballWritten, pub_result>>
    /\ UNCHANGED <<includesIn, libPart, binPart, archive>>
    /\ UNCHANGED pubDeps
    /\ UNCHANGED pubIndex
    /\ UNCHANGED notPubVars

\* publish.rs:204: the first component of each export path is inserted.
IncludesWithExports(inc, m, lib, bin) ==
    (inc \cup (IF m.lib_path THEN {lib} ELSE {})) \cup (IF m.bin_path THEN {bin} ELSE {})

\* publish.rs:166-219: each export path is checked to be a Luau file of the
\* project, and its first component is inserted into the includes.
PubExports ==
    /\ pub_pc = "exports"
    /\ \E ok \in BOOLEAN :
         IF ok
         THEN /\ pub_pc' = "append"
              /\ includes' = IncludesWithExports(includes, pub_manifest, libPart, binPart)
              /\ UNCHANGED pub_result
         ELSE /\ pub_pc' = "done"
              /\ pub_result' = "export path error"
              /\ UNCHANGED includes
    /\ UNCHANGED <<pub_manifest, lockfile, dry_run, yes, archiveCreated, archiveFinished,
                   posts, tarballWritten>>
    /\ UNCHANGED <<includesIn, libPart, binPart, archive>>
    /\ UNCHANGED pubDeps
    /\ UNCHANGED pubIndex
    /\ UNCHANGED notPubVars

\* publish.rs:221-248: the included files and directories are appended; one
\* that does not exist or cannot be read is an error.
PubAppend ==
    /\ pub_pc = "append"
    /\ \E ok \in BOOLEAN :
         IF ok
         THEN /\ pub_pc' = "buildfiles"
              /\ archive' = AppendIncludes(includes, 1)
              /\ UNCHANGED pub_result
         ELSE /\ pub_pc' = "done"
              /\ pub_result' = "include error"
              /\ UNCHANGED archive
    /\ UNCHANGED <<pub_manifest, lockfile, dry_run, yes, archiveCreated, archiveFinished,
                   posts, tarballWritten>>
    /\ UNCHANGED <<includesIn, includes, libPart, binPart>>
    /\ UNCHANGED pubDeps
    /\ UNCHANGED pubIndex
    /\ UNCHANGED notPubVars

\* publish.rs:250-281: the build files of a Roblox target are checked to
\* exist and to be included; has_git and has_wally start false.
PubBuild ==
    /\ pub_pc = "buildfiles"
    /\ \E ok \in BOOLEAN :
         IF ok
         THEN /\ pub_pc' = "rewrite"
              /\ rewriteAt' = 1
              /\ UNCHANGED pub_result
         ELSE /\ pub_pc' = "done"
              /\ pub_result' = "build error"
              /\ UNCHANGED rewriteAt
    /\ UNCHANGED <<pub_manifest, lockfile, dry_run, yes, archiveCreated, archiveFinished,
                   posts, tarballWritten>>
    /\ UNCHANGED pubFiles
    /\ UNCHANGED <<depsIn, deps, indices, wally_indices, member, has_git, has_wally>>
    /\ UNCHANGED pubIndex
    /\ UNCHANGED notPubVars

\* publish.rs:283-369: one specifier of the chain of the three maps.
PubRewrite ==
    /\ pub_pc = "rewrite"
    /\ rewriteAt <= Len(DepMaps)
    /\ LET slot == DepMaps[rewriteAt]
           spec == deps[slot]
           r == RewriteSpecifier(spec, indices, wally_indices, member)
       IN  \E readOk \in BOOLEAN :
             /\ ~readOk => spec.kind = "workspace"
             /\ IF ~readOk
                THEN /\ pub_pc' = "done"
                     /\ pub_result' = "failed to read workspace package manifest"
                     /\ UNCHANGED <<deps, rewriteAt, has_git, has_wally>>
                ELSE /\ has_wally' = (has_wally \/ spec.kind = "wally")
                     /\ has_git' = (has_git \/ spec.kind = "git")
                     /\ IF r.error = "none"
                        THEN /\ deps' = [deps EXCEPT ![slot] = r.spec]
                             /\ rewriteAt' = rewriteAt + 1
                             /\ UNCHANGED <<pub_pc, pub_result>>
                        ELSE /\ pub_pc' = "done"
                             /\ pub_result' = r.error
                             /\ UNCHANGED <<deps, rewriteAt>>
    /\ UNCHANGED <<pub_manifest, lockfile, dry_run, yes, archiveCreated, archiveFinished,
                   posts, tarballWritten>>
    /\ UNCHANGED pubFiles
    /\ UNCHANGED <<depsIn, indices, wally_indices, member>>
    /\ UNCHANGED pubIndex
    /\ UNCHANGED notPubVars

\* publish.rs:371-426: the summary is printed.
PubSummary ==
    /\ pub_pc = "rewrite"
    /\ rewriteAt > Len(DepMaps)
    /\ pub_pc' = "confirm"
    /\ UNCHANGED <<pub_manifest, lockfile, dry_run, yes, archiveCreated, archiveFinished,
                   posts, tarballWritten, pub_result>>
    /\ UNCHANGED pubFiles
    /\ UNCHANGED pubDeps
    /\ UNCHANGED pubIndex
    /\ UNCHANGED notPubVars

\* publish.rs:428-435: the prompt, unless --dry-run or --yes.
PubConfirm ==
    /\ pub_pc = "confirm"
    /\ IF dry_run \/ yes
       THEN /\ pub_pc' = "finish"
            /\ UNCHANGED pub_result
       ELSE \E answer \in {"yes", "no", "error"} :
              CASE answer = "yes" ->
                     /\ pub_pc' = "finish"
                     /\ UNCHANGED pub_result
                [] answer = "no" ->
                     /\ pub_pc' = "done"
                     /\ pub_result' = "Ok"
                [] answer = "error" ->
                     /\ pub_pc' = "done"
                     /\ pub_result' = "prompt error"
    /\ pub_message' = IF pub_pc' = "done" /\ pub_result' = "Ok"
                      THEN [kind |-> "publish aborted", text |-> ""]
                      ELSE pub_message
    /\ UNCHANGED <<pub_manifest, lockfile, dry_run, yes, archiveCreated, archiveFinished,
                   posts, tarballWritten>>
    /\ UNCHANGED pubFiles
    /\ UNCHANGED pubDeps
    /\ UNCHANGED <<treeBytes, archiveLen, config, overage, response>>
    /\ UNCHANGED notPubVars

\* publish.rs:440-452: the serialized manifest, as run_impl changed it, is
\* appended under the manifest file name.
ManifestEntry == [name |-> MANIFEST_FILE_NAME, kind |-> "rewritten"]

\* publish.rs:440-458: the rewritten manifest is appended and the archive
\* finished.
PubFinish ==
    /\ pub_pc = "finish"
    /\ \E ok \in BOOLEAN :
         IF ok
         THEN /\ pub_pc' = "policy"
              /\ archiveFinished' = TRUE
              /\ archive' = Append(archive, ManifestEntry)
              /\ archiveLen' \in ArchiveLens
              /\ UNCHANGED pub_result
         ELSE /\ pub_pc' = "done"
              /\ pub_result' = "archive error"
              /\ UNCHANGED <<archiveFinished, archive, archiveLen>>
    /\ UNCHANGED <<pub_manifest, lockfile, dry_run, yes, archiveCreated, posts,
                   tarballWritten>>
    /\ UNCHANGED <<includesIn, includes, libPart, binPart>>
    /\ UNCHANGED pubDeps
    /\ UNCHANGED <<treeBytes, config, overage, response, pub_message>>
    /\ UNCHANGED notPubVars

\* publish.rs:460-489: default index, refresh, config, archive size,
\* dependency conflicts and the index's git and wally policy.
PubPolicy ==
    /\ pub_pc = "policy"
    /\ \E env \in {"ok", "failed to refresh source", "failed to get source config"},
          conflict \in BOOLEAN :
         LET gate == PolicyGate(config, archiveLen, indices, env, conflict, has_git,
                                has_wally)
         IN  IF gate = "pass"
             THEN /\ pub_pc' = "send"
                  /\ UNCHANGED <<pub_result, overage>>
             ELSE /\ pub_pc' = "done"
                  /\ pub_result' = gate
                  /\ overage' = IF gate = "archive size exceeds maximum size"
                                THEN archiveLen - config.max_archive_size
                                ELSE overage
    /\ UNCHANGED <<pub_manifest, lockfile, dry_run, yes, archiveCreated, archiveFinished,
                   posts, tarballWritten>>
    /\ UNCHANGED pubFiles
    /\ UNCHANGED pubDeps
    /\ UNCHANGED <<treeBytes, archiveLen, config, response, pub_message>>
    /\ UNCHANGED notPubVars

\* publish.rs:491-539: the tarball is written (dry run), or posted once and
\* the response's status and text turned into the result.
PubSend ==
    /\ pub_pc = "send"
    /\ pub_pc' = "done"
    /\ IF SendMode(dry_run) = "write"
       THEN /\ \E writeOk \in BOOLEAN :
                 /\ tarballWritten' = writeOk
                 /\ pub_result' = IF writeOk THEN "Ok" ELSE "write error"
                 /\ pub_message' =
                      IF writeOk
                      THEN [kind |-> "(dry run) package written to package.tar.gz",
                            text |-> ""]
                      ELSE pub_message
            /\ UNCHANGED <<posts, response>>
       ELSE /\ posts' = posts + 1
            /\ \E http \in {"ok", "failed to send request", "failed to get response text"},
                  status \in Statuses, text \in Texts :
                 CASE http = "failed to send request" ->
                        /\ pub_result' = http
                        /\ UNCHANGED <<response, pub_message>>
                   [] http = "failed to get response text" ->
                        /\ pub_result' = http
                        /\ response' = [status |-> status, text |-> ""]
                        /\ UNCHANGED pub_message
                   [] OTHER ->
                        /\ response' = [status |-> status, text |-> text]
                        /\ pub_result' = StatusResult(status)
                        /\ pub_message' = StatusMessage(status, text)
            /\ UNCHANGED tarballWritten
    /\ UNCHANGED <<pub_manifest, lockfile, dry_run, yes, archiveCreated, archiveFinished>>
    /\ UNCHANGED pubFiles
    /\ UNCHANGED pubDeps
    /\ UNCHANGED <<treeBytes, archiveLen, config, overage>>
    /\ UNCHANGED notPubVars

PubNext ==
    \/ PubCheck
    \/ PubNormalize
    \/ PubExports
    \/ PubAppend
    \/ PubBuild
    \/ PubRewrite
    \/ PubSummary
    \/ PubConfirm
    \/ PubFinish
    \/ PubPolicy
    \/ PubSend

InitPublish == RunIdle /\ CompatIdle /\ DlIdle /\ ResIdle /\ RegIdle /\ LinkIdle /\ PubInit

SpecPublish == InitPublish /\ [][PubNext]_vars

\* C10: for a manifest with private = true, or with neither lib_path nor
\* bin_path, run_impl creates no archive, sends no request and writes no
\* tarball; it returns from the checks, Ok for a private manifest and the
\* no-exports error for the other.
C10_PrivateOrNoExportsNotPublished ==
    (pub_manifest.private \/ (~pub_manifest.lib_path /\ ~pub_manifest.bin_path)) =>
        /\ ~archiveCreated
        /\ ~archiveFinished
        /\ posts = 0
        /\ ~tarballWritten
        /\ pub_pc \in {"start", "done"}
        /\ pub_result \in {"none", "failed to read manifest",
                           IF pub_manifest.private THEN "Ok"
                           ELSE "no exports found in target"}

\* run_impl has returned for a private manifest that has a lib path.
C10_Witness ==
    /\ pub_pc = "done"
    /\ pub_manifest.private
    /\ pub_manifest.lib_path
    /\ ~pub_manifest.roblox
    /\ ~dry_run
    /\ yes
    /\ pub_result = "Ok"

\* The manifest is read, is not private and has an export: the checks of the
\* target are what decides.
PublishableManifest ==
    /\ pub_pc # "idle"
    /\ pub_result # "failed to read manifest"
    /\ ~pub_manifest.private
    /\ pub_manifest.lib_path \/ pub_manifest.bin_path

\* The archive builder was not created and nothing was sent or written.
NothingPublished ==
    /\ ~archiveCreated
    /\ ~archiveFinished
    /\ posts = 0
    /\ ~tarballWritten

\* C11 as stated: a Roblox package with empty build files, or with any
\* non-dev package in the locked graph, direct or not, that is not a Roblox
\* target, is not published.
C11_AnyNonRobloxNodeFails ==
    (/\ PublishableManifest
     /\ pub_manifest.roblox
     /\ \/ pub_manifest.build_files_empty
        \/ /\ lockfile.state = "uptodate"
           /\ \E n \in DOMAIN lockfile.graph :
                ~lockfile.graph[n].roblox /\ lockfile.graph[n].ty # "Dev")
        => (NothingPublished /\ pub_result # "Ok")

\* C11, amended: a Roblox package with empty build files, or with a direct
\* non-dev node in the locked graph that is not a Roblox target, is not
\* published and run_impl returns the error of that check; a node that is
\* not direct is not examined: the dependency error is returned only for a
\* direct one.
C11_DirectNonRobloxNodeFails ==
    (PublishableManifest /\ pub_manifest.roblox) =>
        /\ pub_manifest.build_files_empty =>
              /\ NothingPublished
              /\ pub_result \in {"none", "no build files found in target"}
        /\ (/\ ~pub_manifest.build_files_empty
            /\ lockfile.state = "uptodate"
            /\ \E n \in DOMAIN lockfile.graph :
                 /\ lockfile.graph[n].direct
                 /\ ~lockfile.graph[n].roblox
                 /\ lockfile.graph[n].ty # "Dev") =>
              /\ NothingPublished
              /\ pub_result \in {"none",
                                 "roblox packages may not depend on non-roblox packages"}
        /\ pub_result = "roblox packages may not depend on non-roblox packages" =>
              \E n \in DOMAIN lockfile.graph :
                 /\ lockfile.graph[n].direct
                 /\ ~lockfile.graph[n].roblox
                 /\ lockfile.graph[n].ty # "Dev"

\* run_impl has returned the dependency error for a Roblox package whose
\* locked graph has a direct Roblox node and a direct non-dev node that is not.
C11_Witness ==
    /\ pub_pc = "done"
    /\ pub_manifest.roblox
    /\ pub_result = "roblox packages may not depend on non-roblox packages"
    /\ DOMAIN lockfile.graph = LockNodes
    /\ lockfile.graph["depA"].roblox
    /\ lockfile.graph["depA"].direct
    /\ ~lockfile.graph["depB"].roblox
    /\ lockfile.graph["depB"].direct
    /\ lockfile.graph["depB"].ty = "Peer"

\* C12 as stated: for a package of any target kind, a lockfile that is
\* missing or does not match the manifest makes publishing fail, and nothing
\* is uploaded.
C12_OutdatedLockfileFailsAnyKind ==
    (PublishableManifest /\ lockfile.state = "outdated") =>
        (posts = 0 /\ pub_result # "Ok")

\* C12, amended: for a Roblox package with build files, a lockfile that is
\* missing or does not match the manifest makes run_impl return the
\* outdated-lockfile error with nothing published; for any other target kind
\* the lockfile is not read and never is the reason of a failure.
C12_OutdatedLockfileFailsRoblox ==
    PublishableManifest =>
        /\ (/\ pub_manifest.roblox
            /\ ~pub_manifest.build_files_empty
            /\ lockfile.state = "outdated") =>
              /\ NothingPublished
              /\ pub_result \in {"none", "outdated lockfile"}
        /\ ~pub_manifest.roblox =>
              pub_result \notin {"outdated lockfile", "lockfile error",
                                 "roblox packages may not depend on non-roblox packages"}

\* run_impl has returned the outdated-lockfile error for a Roblox package.
C12_Witness ==
    /\ pub_pc = "done"
    /\ pub_manifest.roblox
    /\ ~pub_manifest.build_files_empty
    /\ lockfile.state = "outdated"
    /\ pub_result = "outdated lockfile"

\* The inputs of the archive: a publishable manifest of a target that is not
\* a Roblox one, with any includes and export paths.
ArchiveInit ==
    /\ pub_manifest \in
          [private : {FALSE}, lib_path : {TRUE}, bin_path : BOOLEAN, roblox : {FALSE},
           build_files_empty : {TRUE}]
    /\ lockfile = [state |-> "outdated", graph |-> <<>>]
    /\ dry_run \in BOOLEAN
    /\ yes = TRUE
    /\ includesIn \in SUBSET IncludeNames
    /\ libPart \in {"src", ".git", "rokit.toml"}
    /\ binPart \in {"src", "default.project.json"}
    /\ PlainDeps
    /\ PlainIndex
    /\ PubNotRun

InitArchive == RunIdle /\ CompatIdle /\ DlIdle /\ ResIdle /\ RegIdle /\ LinkIdle /\ ArchiveInit

SpecArchive == InitArchive /\ [][PubNext]_vars

\* C13: the normalization of the includes is idempotent, and what it leaves
\* holds the manifest file name and none of the names it removes.
C13_NormalizationIdempotent ==
    /\ NormalizeIncludes(NormalizeIncludes(includesIn)) = NormalizeIncludes(includesIn)
    /\ NormalizeIncludes(NormalizeIncludes(includes)) = NormalizeIncludes(includes)
    /\ pub_pc = "exports" =>
          /\ includes = NormalizeIncludes(includesIn)
          /\ NormalizeIncludes(includes) = includes
          /\ MANIFEST_FILE_NAME \in includes
          /\ includes \cap RemovedNames = {}

\* The includes of a manifest that names .git, default.project.json and an
\* ignored file, and not the manifest, have been normalized.
C13_Witness ==
    /\ pub_pc = "exports"
    /\ includesIn = {".git", "default.project.json", "rokit.toml", "src", "README.md"}
    /\ includes = {"pesde.toml", "src", "README.md"}

RewriteInit ==
    /\ pub_manifest = [private |-> FALSE, lib_path |-> TRUE, bin_path |-> FALSE,
                       roblox |-> FALSE, build_files_empty |-> TRUE]
    /\ lockfile = [state |-> "outdated", graph |-> <<>>]
    /\ dry_run = FALSE
    /\ yes = TRUE
    /\ includesIn = {"src"}
    /\ libPart = "src"
    /\ binPart = "src"
    /\ depsIn \in [{DepMaps[i] : i \in 1..Len(DepMaps)} -> Specifiers]
    /\ indices \in IndexMaps
    /\ wally_indices \in WallyIndexMaps
    /\ member \in Members
    /\ PlainIndex
    /\ PubNotRun

InitRewrite == RunIdle /\ CompatIdle /\ DlIdle /\ ResIdle /\ RegIdle /\ LinkIdle /\ RewriteInit

SpecRewrite == InitRewrite /\ [][PubNext]_vars

\* The specifier loop is past the map at position i of the chain.
Rewritten(i) == rewriteAt > i

\* The alias of a Registry or Compat specifier that its indices map lacks.
UnknownAlias(spec) ==
    \/ spec.kind = "pesde" /\ IndexName(spec) \notin MapKeys(indices)
    \/ spec.kind = "wally" /\ IndexName(spec) \notin MapKeys(wally_indices)

\* C15: in the manifest of a finished archive no specifier of the three maps
\* is a Workspace one, and each Registry (Compat) specifier of the manifest
\* differs from the one read only by its index, which is the URL that indices
\* (wally_indices) holds for its alias, the default alias if it had none; a
\* manifest with an alias that its map lacks is not archived and run_impl
\* fails.
C15_SpecifiersSelfContained ==
    /\ archiveFinished =>
          \A i \in 1..Len(DepMaps) :
              LET was == depsIn[DepMaps[i]]
                  now == deps[DepMaps[i]]
              IN  /\ now.kind # "workspace"
                  /\ was.kind = "pesde" =>
                        /\ was.index = "none" =>
                              now = [was EXCEPT !.index = indices[DEFAULT_INDEX_NAME]]
                        /\ was.index # "none" =>
                              now = [was EXCEPT !.index = indices[was.index]]
                  /\ was.kind = "wally" =>
                        /\ was.index = "none" =>
                              now = [was EXCEPT !.index = wally_indices[DEFAULT_INDEX_NAME]]
                        /\ was.index # "none" =>
                              now = [was EXCEPT !.index = wally_indices[was.index]]
    /\ (\E i \in 1..Len(DepMaps) : UnknownAlias(depsIn[DepMaps[i]])) =>
          /\ ~archiveFinished
          /\ posts = 0
          /\ pub_result # "Ok"
          /\ pub_pc \in {"start", "build", "exports", "append", "buildfiles", "rewrite",
                         "done"}

\* An archive was finished for a manifest with a Registry specifier with no
\* alias, a Compat specifier with one, and a Workspace specifier.
C15_Witness ==
    /\ archiveFinished
    /\ depsIn["dependencies"].kind = "pesde"
    /\ depsIn["dependencies"].index = "none"
    /\ deps["dependencies"].index = "https://registry/default"
    /\ depsIn["dev_dependencies"].kind = "wally"
    /\ deps["dev_dependencies"].index = "https://wally/extra"
    /\ depsIn["peer_dependencies"].kind = "workspace"
    /\ deps["peer_dependencies"].kind = "pesde"

\* C16: a Workspace specifier the loop is past has become a Registry
\* specifier: of the requirement * for the wildcard, of the same requirement
\* for a full requirement, of the prefix followed by the member's version for
\* a prefix; its index is the member's default index URL, its target the
\* specifier's own if it has one, else the member's kind.
C16_WorkspaceBecomesRegistry ==
    \A i \in 1..Len(DepMaps) :
        LET was == depsIn[DepMaps[i]]
            now == deps[DepMaps[i]]
        IN  (pub_pc # "idle" /\ Rewritten(i) /\ was.kind = "workspace") =>
                /\ now.kind = "pesde"
                /\ was.vtype = "*" => now.version = "*"
                /\ was.vtype = "req" => now.version = was.version
                /\ was.vtype \in {"^", "~", "="} =>
                      now.version = was.vtype \o member.version
                /\ (was.vtype = "^" /\ member.version = "1.0.0") =>
                      now.version = "^1.0.0"
                /\ now.index = member.default_index
                /\ now.index = "https://member/default"
                /\ was.target # "none" => now.target = was.target
                /\ was.target = "none" => now.target = member.kind

\* The loop has rewritten a prefix specifier with a target, a wildcard one
\* and a full requirement, for a member of version 1.0.0.
C16_Witness ==
    /\ pub_pc = "confirm"
    /\ member.version = "1.0.0"
    /\ depsIn["dependencies"].vtype = "^"
    /\ depsIn["dependencies"].target = "luau"
    /\ deps["dependencies"].version = "^1.0.0"
    /\ deps["dependencies"].target = "luau"
    /\ depsIn["dev_dependencies"].vtype = "*"
    /\ deps["dev_dependencies"].version = "*"
    /\ deps["dev_dependencies"].target = "lune"
    /\ depsIn["peer_dependencies"].vtype = "req"
    /\ deps["peer_dependencies"].version = ">=1.2.0"

(***************************************************************************)
(* Publish against an index: the size of the archive, the index's policy   *)
(* on git and compatibility-registry dependencies, and the upload.         *)
(***************************************************************************)

\* Specifiers whose aliases the maps below hold.
PolicySpecs ==
    {[kind |-> "pesde", index |-> "none", vtype |-> "none", version |-> "^0.3.0",
      target |-> "none"],
     [kind |-> "git", index |-> "none", vtype |-> "none", version |-> "none",
      target |-> "none"],
     [kind |-> "wally", index |-> "extra", vtype |-> "none", version |-> "^0.3.0",
      target |-> "none"]}

\* A publishable manifest with a choice of dependencies, published under a
\* choice of index configs and sizes of the included files.
PolicyInit ==
    /\ pub_manifest = [private |-> FALSE, lib_path |-> TRUE, bin_path |-> FALSE,
                       roblox |-> FALSE, build_files_empty |-> TRUE]
    /\ lockfile = [state |-> "outdated", graph |-> <<>>]
    /\ dry_run \in BOOLEAN
    /\ yes \in BOOLEAN
    /\ includesIn = {"src"}
    /\ libPart = "src"
    /\ binPart = "src"
    /\ depsIn \in {d \in [{DepMaps[i] : i \in 1..Len(DepMaps)} -> PolicySpecs \cup {Absent}] :
                      /\ d["dependencies"] # Absent
                      /\ d["peer_dependencies"].kind \in {"absent", "git"}}
    /\ indices = [a \in {"default"} |-> "https://registry/default"]
    /\ wally_indices = [a \in {"extra"} |-> "https://wally/extra"]
    /\ member = NoMember
    /\ treeBytes \in 0..MaxArchiveLen
    /\ config \in Configs
    /\ PubNotRun

InitPolicy == RunIdle /\ CompatIdle /\ DlIdle /\ ResIdle /\ RegIdle /\ LinkIdle /\ PolicyInit

SpecPolicy == InitPolicy /\ [][PubNext]_vars

SizeError == "archive size exceeds maximum size"

\* The run got the index's config and compared the archive's length.
SizeChecked ==
    /\ archiveFinished
    /\ pub_pc \in {"send", "done"}
    /\ pub_result \notin {"missing default index", "failed to refresh source",
                          "failed to get source config"}

\* C17 as stated: the size check fails exactly when the archive is longer
\* than the maximum, the overage is the difference, an archive of exactly the
\* maximum passes, and included files totalling one byte more than the
\* maximum are refused with an overage of 1.
C17_TreeOverLimitRefusedByOne ==
    SizeChecked =>
        /\ (pub_result = SizeError) <=> (archiveLen > config.max_archive_size)
        /\ pub_result = SizeError => overage = archiveLen - config.max_archive_size
        /\ archiveLen = config.max_archive_size => pub_result # SizeError
        /\ treeBytes = config.max_archive_size + 1 =>
              /\ pub_result = SizeError
              /\ overage = 1

\* C17, amended: the size check fails exactly when the finished archive is
\* longer than the maximum, nothing is uploaded or written then, and the
\* overage is the difference; an archive of exactly the maximum passes the
\* check, and one that is one byte longer is refused with an overage of 1.
C17_ArchiveSizeCheck ==
    SizeChecked =>
        /\ (pub_result = SizeError) <=> (archiveLen > config.max_archive_size)
        /\ pub_result = SizeError =>
              /\ overage = archiveLen - config.max_archive_size
              /\ posts = 0
              /\ ~tarballWritten
        /\ archiveLen = config.max_archive_size => pub_result # SizeError
        /\ archiveLen = config.max_archive_size + 1 =>
              /\ pub_result = SizeError
              /\ overage = 1

\* An archive one byte longer than the maximum was refused, for included
\* files of another total size.
C17_Witness ==
    /\ pub_pc = "done"
    /\ pub_result = SizeError
    /\ config.max_archive_size > 0
    /\ archiveLen = config.max_archive_size + 1
    /\ overage = 1
    /\ treeBytes # archiveLen

\* The manifest, as read, has a specifier of the kind in one of its three maps.
HasKind(kind) == \E i \in 1..Len(DepMaps) : depsIn[DepMaps[i]].kind = kind

\* The index's config refuses a dependency of the manifest.
PolicyRefuses ==
    \/ HasKind("git") /\ ~config.git_allowed
    \/ HasKind("wally") /\ ~config.wally_allowed

\* C18: when the manifest has a git dependency in any of its three maps and
\* the index does not allow git dependencies, or a compatibility-registry
\* dependency and the index does not allow those, no POST is sent, no dry-run
\* tarball is written, and a run that is not aborted at the prompt ends in an
\* error; a run that reaches the policy check with nothing else wrong ends in
\* the error of the policy.
C18_PolicyFailsBeforeUpload ==
    (pub_pc # "idle" /\ PolicyRefuses) =>
        /\ posts = 0
        /\ ~tarballWritten
        /\ pub_pc # "send"
        /\ response = NoResponse
        /\ pub_pc = "done" =>
              \/ pub_result # "Ok"
              \/ pub_message.kind = "publish aborted"
        /\ (pub_pc = "done" /\ archiveFinished) =>
              pub_result \in {"failed to refresh source", "failed to get source config",
                              SizeError, "dependency conflict",
                              "git dependencies are not allowed",
                              "wally dependencies are not allowed"}

\* A dry run whose only git dependency is a peer dependency was refused by
\* the index's policy, and wrote nothing.
C18_Witness ==
    /\ pub_pc = "done"
    /\ dry_run
    /\ depsIn["dependencies"].kind = "pesde"
    /\ depsIn["dev_dependencies"].kind = "absent"
    /\ depsIn["peer_dependencies"].kind = "git"
    /\ pub_result = "git dependencies are not allowed"
    /\ ~tarballWritten
    /\ posts = 0

\* The outcome the claim gives for the status of the last response.
OutcomeByStatus ==
    LET status == response.status
    IN  /\ status \in 200..299 =>
              /\ pub_result = "Ok"
              /\ pub_message = [kind |-> "text", text |-> response.text]
        /\ status = 409 =>
              /\ pub_result = "Ok"
              /\ pub_message.kind = "package version already exists"
        /\ status = 403 =>
              /\ pub_result = "Ok"
              /\ pub_message.kind = "unauthorized to publish under this scope"
        /\ status = 400 =>
              /\ pub_result = "Ok"
              /\ pub_message = [kind |-> "invalid package", text |-> response.text]
        /\ status \notin (200..299) \cup {400, 403, 409} =>
              pub_result = "failed to publish package"

\* C19 as stated: the outcome of an upload is given by the status of the
\* response alone, and one POST is sent.
C19_OutcomeByStatusAlone ==
    /\ posts <= 1
    /\ response # NoResponse =>
          /\ posts = 1
          /\ OutcomeByStatus

\* C19, amended: at most one POST is sent, exactly one when there is a
\* response; a response whose body could not be read is a fatal error whatever
\* its status; otherwise the outcome is given by the status: success for 2xx,
\* the three printed lines for 409, 403 and 400 (the last with the server's
\* message), a fatal error for every other status.
C19_OutcomeByStatusOfReadResponse ==
    /\ posts <= 1
    /\ response # NoResponse =>
          /\ posts = 1
          /\ pub_pc = "done"
          /\ ~tarballWritten
          /\ IF pub_result = "failed to get response text"
             THEN pub_message = NoMessage
             ELSE OutcomeByStatus

\* A 204 was taken for success, after one POST.
C19_Witness ==
    /\ response.status = 204
    /\ pub_result = "Ok"
    /\ pub_message.kind = "text"
    /\ posts = 1

(***************************************************************************)
(* PublishCommand::run: run_impl on the project, then, at a workspace      *)
(* root, on every member of the workspace.                                  *)
(***************************************************************************)

\* The workspaces: the members the root's globs give, in the order they are
\* visited.
MemberLists == {<<>>, <<"api">>, <<"api", "cli">>}

\* The manifests of the projects: one that can be published, one with no
\* exports.
RunManifests ==
    {[private |-> FALSE, lib_path |-> TRUE, bin_path |-> FALSE, roblox |-> FALSE,
      build_files_empty |-> TRUE],
     [private |-> FALSE, lib_path |-> FALSE, bin_path |-> FALSE, roblox |-> FALSE,
      build_files_empty |-> TRUE]}

\* A plausible bug: an error of the root ends the run.
AfterFirst_stopsOnError(dir, result) ==
    IF dir # "none" \/ result # "Ok" THEN "return" ELSE "members"

\* publish.rs:544-550: inside a member the result of run_impl is returned;
\* at the root the members follow, whatever the result.
AfterFirst(dir, result) == IF dir # "none" THEN "return" ELSE "members"

\* anyhow::Result<()> of run_impl, as run sees it.
ResultOf(result) == IF result = "Ok" THEN "Ok" ELSE "Err"

\* publish.rs:543: run calls run_impl on the project it was given.
RunInit ==
    /\ run_pc = "first"
    /\ workspace_dir \in {"none", "workspace"}
    /\ members \in IF workspace_dir = "none" THEN MemberLists ELSE {<<>>}
    /\ current = IF workspace_dir = "none" THEN "root" ELSE "cli"
    /\ run_i = 0
    /\ attempted = <<>>
    /\ failed = {}
    /\ reported = {}
    /\ run_result = "none"
    /\ pub_manifest \in RunManifests
    /\ lockfile = [state |-> "outdated", graph |-> <<>>]
    /\ dry_run = FALSE
    /\ yes = TRUE
    /\ includesIn = {"src"}
    /\ libPart = "src"
    /\ binPart = "src"
    /\ PlainDeps
    /\ PlainIndex
    /\ PubNotRun

\* run_impl is called on another project with the same command.
PubBegin ==
    /\ pub_pc' = "start"
    /\ pub_manifest' \in RunManifests
    /\ archiveCreated' = FALSE
    /\ archiveFinished' = FALSE
    /\ posts' = 0
    /\ tarballWritten' = FALSE
    /\ pub_result' = "none"
    /\ includes' = includesIn
    /\ archive' = <<>>
    /\ deps' = depsIn
    /\ rewriteAt' = 0
    /\ has_git' = FALSE
    /\ has_wally' = FALSE
    /\ archiveLen' = 0
    /\ overage' = 0
    /\ response' = NoResponse
    /\ pub_message' = NoMessage
    /\ UNCHANGED <<lockfile, dry_run, yes, includesIn, libPart, binPart, depsIn, indices,
                   wally_indices, member, treeBytes, config>>

\* publish.rs:543-549: run_impl has returned for the project run was given.
RunFirstDone ==
    /\ run_pc = "first"
    /\ pub_pc = "done"
    /\ attempted' = Append(attempted, current)
    /\ failed' = IF pub_result # "Ok" THEN failed \cup {current} ELSE failed
    /\ IF AfterFirst(workspace_dir, pub_result) = "return"
       THEN /\ run_pc' = "returned"
            /\ run_result' = ResultOf(pub_result)
            /\ UNCHANGED <<reported, run_i>>
       ELSE /\ run_pc' = "members"
            /\ run_i' = 1
            /\ reported' = IF pub_result # "Ok" THEN reported \cup {current} ELSE reported
            /\ UNCHANGED run_result
    /\ UNCHANGED <<workspace_dir, members, current>>
    /\ UNCHANGED pubVars
    /\ UNCHANGED notRunVars

\* run_on_workspace_members: the closure is called on the next member.
RunMemberBegin ==
    /\ run_pc = "members"
    /\ run_i <= Len(members)
    /\ run_pc' = "member"
    /\ current' = members[run_i]
    /\ PubBegin
    /\ UNCHANGED <<workspace_dir, members, run_i, attempted, failed, reported, run_result>>
    /\ UNCHANGED notRunVars

\* run_on_workspace_members: run_impl has returned for a member; its error is
\* reported and the remaining members follow.
RunMemberDone ==
    /\ run_pc = "member"
    /\ pub_pc = "done"
    /\ attempted' = Append(attempted, current)
    /\ failed' = IF pub_result # "Ok" THEN failed \cup {current} ELSE failed
    /\ reported' = IF pub_result # "Ok" THEN reported \cup {current} ELSE reported
    /\ run_pc' = "members"
    /\ run_i' = run_i + 1
    /\ UNCHANGED <<workspace_dir, members, current, run_result>>
    /\ UNCHANGED pubVars
    /\ UNCHANGED notRunVars

\* publish.rs:550-551: the result of run_on_workspace_members, without its
\* value, is the result of run.
RunReturn ==
    /\ run_pc = "members"
    /\ run_i > Len(members)
    /\ run_pc' = "returned"
    /\ run_result' \in IF failed \subseteq {"root"} THEN {"Ok"} ELSE {"Ok", "Err"}
    /\ UNCHANGED <<workspace_dir, members, run_i, current, attempted, failed, reported>>
    /\ UNCHANGED pubVars
    /\ UNCHANGED notRunVars

RunNext ==
    \/ PubNext
    \/ RunFirstDone
    \/ RunMemberBegin
    \/ RunMemberDone
    \/ RunReturn

InitRun == CompatIdle /\ DlIdle /\ ResIdle /\ RegIdle /\ LinkIdle /\ RunInit

SpecRun == InitRun /\ [][RunNext]_vars

C21_DryRunAndDeclineUploadNothing ==
    /\ dry_run =>
          /\ posts = 0
          /\ response = NoResponse
          /\ (pub_pc = "done" /\ pub_result = "Ok") =>
                /\ tarballWritten
                /\ pub_message.kind = "(dry run) package written to package.tar.gz"
    /\ tarballWritten =>
          /\ dry_run
          /\ pub_pc = "done"
          /\ archiveFinished
          /\ archiveLen <= config.max_archive_size
          /\ ~PolicyRefuses
    /\ pub_message.kind = "publish aborted" =>
          /\ ~dry_run
          /\ ~yes
          /\ pub_pc = "done"
          /\ pub_result = "Ok"
          /\ posts = 0
          /\ ~tarballWritten
          /\ ~archiveFinished

\* A dry run of a manifest with a git dependency the index allows wrote the
\* tarball and sent nothing.
C21_Witness ==
    /\ dry_run
    /\ pub_pc = "done"
    /\ tarballWritten
    /\ HasKind("git")
    /\ posts = 0
    /\ pub_result = "Ok"

\* ---------------------------------------------------------------------------
\* Linking: the sync config generator script, the type pass, re-running.

\* The first pass of link_dependencies went over every node.
FirstPassDone == link_pc \in {"direct", "edges"} \/ link_result = "Ok"

\* The nodes the sync config generator script was called for.
SyncCalled == {syncCalls[i].node : i \in 1..Len(syncCalls)}

\* C23 as stated: for a consumer of a Roblox kind, the sync config generator
\* script is run for every node whose target carries build_files (a target of
\* a Roblox kind), and for no other node.
C23_SyncConfigForEveryBuildFilesNode ==
    (rootKind = "roblox" /\ FirstPassDone) =>
        SyncCalled = {n \in LinkNodes : linkGraph[n].kind = "roblox"}

\* C23 amended: whatever the consumer's kind, the script is run exactly once,
\* with the container folder followed by the build file names, for every node
\* that has a lib path, a target of a Roblox kind, is not a package of the
\* compatibility registry, and only when the manifest names the script; it is
\* run for no other node, and its failure ends linking with
\* GenerateRobloxSyncConfig before any shim is written.
C23_SyncConfigForEligibleNodes ==
    LET eligible == {n \in LinkNodes : /\ linkGraph[n].lib # "none"
                                       /\ linkGraph[n].kind = "roblox"
                                       /\ ~linkGraph[n].wally
                                       /\ has_script}
    IN  /\ \A i \in 1..Len(syncCalls) :
              /\ syncCalls[i].node \in eligible
              /\ syncCalls[i].folder =
                    ContainerFolder(NodeBaseFolder(linkGraph, rootKind, syncCalls[i].node),
                                    syncCalls[i].node)
              /\ syncCalls[i].files = BuildFiles[syncCalls[i].node]
              /\ \A j \in 1..Len(syncCalls) :
                    syncCalls[j].node = syncCalls[i].node => j = i
        /\ FirstPassDone => SyncCalled = eligible
        /\ link_result = "GenerateRobloxSyncConfig" =>
              /\ link_pc = "done"
              /\ syncCalls # <<>>
              /\ shims = shimsAtStart

\* Linking for a consumer of a Roblox kind ended well; the script ran for one
\* package and not for a package of the compatibility registry that has a
\* lib path.
C23_Witness ==
    /\ link_result = "Ok"
    /\ rootKind = "roblox"
    /\ Len(syncCalls) = 1
    /\ \E n \in LinkNodes : linkGraph[n].wally /\ linkGraph[n].lib = "present"

\* C24 as stated: a library entry file that does not parse never makes
\* link_dependencies fail: no run ends with the error of the parser.
C24_SyntaxErrorDoesNotFailLinking ==
    ~(link_pc = "done" /\ link_result = "FullMoon")

\* C28: the type pass ends before any shim is written and leaves a list of
\* types for every node with a lib path, so the lookup of a dependency's
\* types in the second pass never panics.
C28_TypesRecordedBeforeShims ==
    /\ link_result # "panic"
    /\ link_pc \in {"start", "types"} => shims = shimsAtStart
    /\ (shims # shimsAtStart \/ link_pc \in {"direct", "edges"} \/ link_result = "Ok") =>
          \A n \in LinkNodes : linkGraph[n].lib # "none" => n \in DOMAIN package_types

\* Linking ended well after writing the shim of an edge to a package whose
\* lib path is the placeholder, whose recorded list of types is empty.
C28_Witness ==
    /\ link_result = "Ok"
    /\ \E n \in LinkNodes, d \in LinkNodes :
          /\ d \in linkGraph[n].deps
          /\ linkGraph[d].lib = "placeholder"
          /\ package_types[d] = <<>>
          /\ EdgeShimPath(linkGraph, rootKind, n, d) \in shims

\* C30 as stated: a second run of link_dependencies on the project and graph
\* of the first, with the first run's shims in place, fails only when its
\* environment fails, and ends with the same shim files; within a run no
\* destination is hard-linked twice.
C30_RelinkSucceeds ==
    /\ (link_run = 2 /\ link_pc = "done" /\ link_result = "Io") => link_io = "Other"
    /\ (link_run = 2 /\ link_pc = "done" /\ link_result = "Ok") => shims = shimsAtStart
    /\ \A i, j \in 1..Len(linkedPaths) : linkedPaths[i] = linkedPaths[j] => i = j

\* ---------------------------------------------------------------------------
\* The target of a package of the compatibility registry.

\* C25: a target get_target returns has a lib path: the first path of the
\* sourcemap whose extension is lua or luau, or the placeholder when the
\* script is not configured, gives nothing, or lists no such path; its kind is
\* the shared Roblox kind exactly when the realm is shared, else the server
\* kind.  For a package whose lib path is the placeholder the linker reads no
\* file and records an empty list of types.
C25_CompatTarget ==
    /\ (compat_pc \in {"done", "linked"} /\ compat_result.ok) =>
          LET target == compat_result.target
              paths == compat_in.file_paths
              listed == compat_in.script /\ compat_in.run = "output"
              scripts == {i \in 1..Len(paths) : paths[i].ext = "lua" \/ paths[i].ext = "luau"}
          IN  /\ target.lib # NoPath
              /\ (listed /\ scripts # {}) =>
                    \E i \in scripts : /\ target.lib = paths[i]
                                       /\ \A j \in scripts : i <= j
              /\ (~listed \/ scripts = {}) =>
                    AsStr(target.lib) = "____pesde_no_export_file_found"
              /\ target.kind = (IF compat_in.wally_toml = "shared"
                                THEN "roblox" ELSE "roblox_server")
              /\ compat_in.wally_toml \in {"shared", "server"}
    /\ compat_pc = "linked" =>
          /\ (linkGraph["pkgA"].lib = "placeholder") <=>
                (AsStr(compat_result.target.lib) = "____pesde_no_export_file_found")
          /\ linkGraph["pkgA"].lib = "placeholder" =>
                /\ "pkgA" \notin filesRead
                /\ "pkgA" \in DOMAIN package_types => package_types["pkgA"] = <<>>
                /\ FirstPassDone => "pkgA" \in DOMAIN package_types

\* The sourcemap lists paths, none of them a script: the target has the
\* placeholder, and linking ended well with an empty list of types for it.
C25_Witness ==
    /\ compat_pc = "linked"
    /\ compat_in.script
    /\ compat_in.run = "output"
    /\ Len(compat_in.file_paths) = 2
    /\ AsStr(compat_result.target.lib) = "____pesde_no_export_file_found"
    /\ compat_result.target.kind = "roblox_server"
    /\ link_result = "Ok"
    /\ package_types["pkgA"] = <<>>
    /\ "pkgB" \in filesRead

\* ---------------------------------------------------------------------------
\* Publishing: the names the normalization removes.

\* C29 as stated: no name the normalization of the includes removes is the
\* name of an entry appended to the archive, whatever the manifest's lib and
\* bin paths.
C29_NoRemovedNameArchived ==
    \A i \in 1..Len(archive) : archive[i].name \notin RemovedNames

====
